---- MODULE Spec2Model ----
(***************************************************************************)
(* A model of three parts of the binius polynomial-commitment core:        *)
(*   - crates/core/src/piop/commit.rs     the oracle -> commit-index map    *)
(*   - src/field/binary_field_arithmetic.rs   binary tower arithmetic       *)
(*   - src/poly_commit/tensor_pcs.rs      TensorPCS commit / prove / verify *)
(* Each part has its own specification (SpecMeta, SpecField, SpecPCS) over *)
(* its own variables; the other parts' variables stay as initialised.      *)
(***************************************************************************)
EXTENDS Integers, Sequences, FiniteSets, TLC

VARIABLES
    oracles,      \* MultilinearOracleSet: sequence of oracle descriptors, id = position - 1
    metaResult,   \* result of the last make_oracle_commit_meta call, or the "none" record
    fcall,        \* the last tower-field operation: its level, operands and result
    batch,        \* the batch of multilinears given to commit and prove_evaluation
    point,        \* the evaluation point (already observed by the challenger)
    claimed,       \* the claimed evaluations given to verify_evaluation
    commitRes,    \* result of commit: the commitment and the Committed state
    commitArg,    \* the polynomials commit was called with
    proveRun,     \* result of prove_evaluation and the prover's challenger after it
    proveRun2,    \* the same for a second run on a clone of the challenger
    handoff,      \* the proof as the verifier receives it
    verifyRun,    \* result of verify_evaluation and the verifier's challenger after it
    collected,    \* result of collect_committed_witnesses and the witness index it was given
    built,        \* result of TensorPCS::new and the parameters it was given
    mixCall       \* result of a direct call of mix_t_primes and its arguments

metaVars == <<oracles, metaResult, collected>>

fieldVars == <<fcall>>

pcsVars == <<batch, point, claimed, commitRes, commitArg, proveRun, proveRun2, handoff,
            verifyRun>>

unitVars == <<built, mixCall>>

vars == <<oracles, metaResult, fcall, batch, point, claimed, commitRes, commitArg, proveRun,
          proveRun2, handoff, verifyRun, collected, built, mixCall>>

(***************************************************************************)
(* Generic helpers                                                         *)
(***************************************************************************)

RECURSIVE SumSeq(_)
SumSeq(s) == IF s = <<>> THEN 0 ELSE s[1] + SumSeq(Tail(s))

\* the first n elements of s (all of s when it is shorter)
Take(s, n) == SubSeq(s, 1, IF n < Len(s) THEN n ELSE Len(s))

(***************************************************************************)
(* Part A.  crates/core/src/piop/commit.rs                                 *)
(***************************************************************************)

\* F::TOWER_LEVEL of the top field (BinaryField128b in the test)
TOWER_LEVEL == 7

\* bounds of the oracle sets explored
MaxOracles == 4
MaxNVars == 2
MaxDeficit == 1
MaxLogCount == 1

TowerLevels == (TOWER_LEVEL - MaxDeficit) .. TOWER_LEVEL

\* oracles.size()
OracleSetSize(os) == Len(os)

\* the oracle with id `id` (ids count from 0, in insertion order)
OracleById(os, id) == os[id + 1]

\* a saturating subtraction in place of checked_sub: never fails
n_packed_vars_saturating(oracle, id) ==
    LET deficit == TOWER_LEVEL - oracle.tower_level
    IN  [ok |-> TRUE,
         n_packed_vars |-> IF oracle.n_vars >= deficit THEN oracle.n_vars - deficit ELSE 0]

\* n_packed_vars_for_committed_oracle: n_vars.checked_sub(F::TOWER_LEVEL - tower_level)
n_packed_vars_for_committed_oracle(oracle, id) ==
    LET deficit == TOWER_LEVEL - oracle.tower_level
    IN  IF oracle.n_vars >= deficit
        THEN [ok |-> TRUE, n_packed_vars |-> oracle.n_vars - deficit]
        ELSE [ok |-> FALSE, err |-> "OracleTooSmall", id |-> id, min_vars |-> deficit]

\* ResizeableIndex::get_mut(i): grows the vector with zeros up to index i
RECURSIVE ResizeTo(_, _)
ResizeTo(v, n) == IF Len(v) >= n THEN v ELSE ResizeTo(Append(v, 0), n)

\* the loop body with idx_in_bucket read after the increment
FirstPassStepOffByOne(st, id, pv) ==
    LET grown == ResizeTo(st.n_multilins_by_vars, pv + 1)
    IN  [ok |-> TRUE,
         first_pass_index |->
             (id :> [n_packed_vars |-> pv, idx_in_bucket |-> grown[pv + 1] + 1])
                 @@ st.first_pass_index,
         n_multilins_by_vars |-> [grown EXCEPT ![pv + 1] = @ + 1]]

\* one iteration of the first-pass loop body for a committed oracle
FirstPassStep(st, id, pv) ==
    LET grown == ResizeTo(st.n_multilins_by_vars, pv + 1)
    IN  [ok |-> TRUE,
         first_pass_index |->
             (id :> [n_packed_vars |-> pv, idx_in_bucket |-> grown[pv + 1]])
                 @@ st.first_pass_index,
         n_multilins_by_vars |-> [grown EXCEPT ![pv + 1] = @ + 1]]

\* the first pass over oracles.iter(), from oracle id `id` on; `?` returns the
\* first error and drops what was built so far
RECURSIVE FirstPass(_, _, _)
FirstPass(os, id, st) ==
    IF id >= OracleSetSize(os) THEN st
    ELSE LET oracle == OracleById(os, id)
         IN  IF oracle.kind = "Committed"
             THEN LET r == n_packed_vars_for_committed_oracle(oracle, id)
                  IN  IF r.ok
                      THEN FirstPass(os, id + 1, FirstPassStep(st, id, r.n_packed_vars))
                      ELSE r
             ELSE FirstPass(os, id + 1, st)

\* CommitMeta::total_multilins
total_multilins(n_multilins_by_vars) == SumSeq(n_multilins_by_vars)

\* CommitMeta::range_by_vars(v): the half-open interval [start, end)
range_by_vars(n_multilins_by_vars, v) ==
    LET start == SumSeq(Take(n_multilins_by_vars, v))
    IN  [start |-> start, end |-> start + n_multilins_by_vars[v + 1]]

\* the second pass without the bucket offset
SecondPassIndexNoOffset(n_multilins_by_vars, fp) == fp.idx_in_bucket

\* the second pass counting down from the end of the bucket
SecondPassIndexReversed(n_multilins_by_vars, fp) ==
    range_by_vars(n_multilins_by_vars, fp.n_packed_vars).end - 1 - fp.idx_in_bucket

\* the second-pass loop body: offset + idx_in_bucket
SecondPassIndex(n_multilins_by_vars, fp) ==
    range_by_vars(n_multilins_by_vars, fp.n_packed_vars).start + fp.idx_in_bucket

\* the second pass: for id in 0..oracles.size(), ids present in first_pass_index
SecondPass(os, n_multilins_by_vars, first_pass_index) ==
    [id \in DOMAIN first_pass_index |->
        SecondPassIndex(n_multilins_by_vars, first_pass_index[id])]

EmptyFirstPass ==
    [ok |-> TRUE, first_pass_index |-> <<>>, n_multilins_by_vars |-> <<>>]

make_oracle_commit_meta(os) ==
    LET fp == FirstPass(os, 0, EmptyFirstPass)
    IN  IF fp.ok
        THEN [ok |-> TRUE,
              n_multilins_by_vars |-> fp.n_multilins_by_vars,
              index |-> SecondPass(os, fp.n_multilins_by_vars, fp.first_pass_index)]
        ELSE fp

NoResult == [ok |-> FALSE, err |-> "none"]

NoCall == [op |-> "none"]

\* MultilinearOracleSet::new(); nothing has been called in the other parts
InitMeta ==
    /\ oracles = <<>>
    /\ metaResult = NoResult
    /\ fcall = NoCall
    /\ batch = <<>>
    /\ point = <<>>
    /\ claimed = <<>>
    /\ commitRes = [ok |-> FALSE, err |-> "not called"]
    /\ commitArg = <<>>
    /\ proveRun = [called |-> FALSE]
    /\ proveRun2 = [called |-> FALSE]
    /\ handoff = [given |-> FALSE]
    /\ verifyRun = [called |-> FALSE]
    /\ collected = [called |-> FALSE]
    /\ built = [called |-> FALSE]
    /\ mixCall = [called |-> FALSE]

\* oracles.add_committed_batch(n_vars, tower_level) + add_committed
AddCommitted ==
    /\ metaResult = NoResult
    /\ Len(oracles) < MaxOracles
    /\ \E nv \in 0 .. MaxNVars, tl \in TowerLevels :
          oracles' = Append(oracles,
                        [kind |-> "Committed", n_vars |-> nv, tower_level |-> tl])
    /\ UNCHANGED <<metaResult, collected, fieldVars, pcsVars, unitVars>>

\* oracles.add_repeating(inner, log_count)
AddRepeating ==
    /\ metaResult = NoResult
    /\ Len(oracles) < MaxOracles
    /\ \E inner \in 0 .. Len(oracles) - 1, log_count \in 0 .. MaxLogCount :
          oracles' = Append(oracles,
                        [kind |-> "Repeating",
                         n_vars |-> OracleById(oracles, inner).n_vars + log_count,
                         tower_level |-> OracleById(oracles, inner).tower_level])
    /\ UNCHANGED <<metaResult, collected, fieldVars, pcsVars, unitVars>>

MakeOracleCommitMeta ==
    /\ metaResult = NoResult
    /\ metaResult' = make_oracle_commit_meta(oracles)
    /\ UNCHANGED <<oracles, collected, fieldVars, pcsVars, unitVars>>

\* witness_index.get_multilin_poly(oracle_id): the witness, or the lookup error
get_multilin_poly(witness_index, oracle_id) ==
    IF oracle_id \in DOMAIN witness_index
    THEN [ok |-> TRUE, witness |-> witness_index[oracle_id]]
    ELSE [ok |-> FALSE, err |-> "MissingWitness", id |-> oracle_id]

None == [some |-> FALSE]
Some(w) == [some |-> TRUE, value |-> w]

\* the witness stored in the first free slot instead of the slot of its commit index
CollectStoreInOrder(witnesses, commit_idx, w) ==
    LET free == {i \in 1 .. Len(witnesses) : ~witnesses[i].some}
        first == CHOOSE i \in free : \A j \in free : i <= j
    IN  IF free = {} THEN witnesses ELSE [witnesses EXCEPT ![first] = Some(w)]

\* witnesses[*commit_idx] = Some(..)
CollectStore(witnesses, commit_idx, w) ==
    [witnesses EXCEPT ![commit_idx + 1] = Some(w)]

\* for oracle_id in 0..oracles.size(): the lookup error of the first mapped oracle
\* without a witness ends the loop
RECURSIVE CollectLoop(_, _, _, _, _)
CollectLoop(oracle_to_commit_index, witness_index, size, oracle_id, witnesses) ==
    IF oracle_id = size THEN [ok |-> TRUE, witnesses |-> witnesses]
    ELSE IF oracle_id \in DOMAIN oracle_to_commit_index
    THEN LET w == get_multilin_poly(witness_index, oracle_id)
         IN  IF ~w.ok THEN w
             ELSE CollectLoop(oracle_to_commit_index, witness_index, size, oracle_id + 1,
                      CollectStore(witnesses, oracle_to_commit_index[oracle_id], w.witness))
    ELSE CollectLoop(oracle_to_commit_index, witness_index, size, oracle_id + 1, witnesses)

\* pub fn collect_committed_witnesses(commit_meta, oracle_to_commit_index, oracles,
\* witness_index); expect() panics on a slot left empty
collect_committed_witnesses(n_multilins_by_vars, oracle_to_commit_index, os, witness_index) ==
    LET total == total_multilins(n_multilins_by_vars)
        filled == CollectLoop(oracle_to_commit_index, witness_index, OracleSetSize(os), 0,
                              [i \in 1 .. total |-> None])
    IN  IF ~filled.ok THEN filled
        ELSE IF \E i \in 1 .. total : ~filled.witnesses[i].some
        THEN [ok |-> FALSE, err |-> "panic"]
        ELSE [ok |-> TRUE, witnesses |-> [i \in 1 .. total |-> filled.witnesses[i].value]]

\* the witness of an oracle
WitnessOf(os, id) == [oracle_id |-> id, n_vars |-> OracleById(os, id).n_vars]

\* the witness indexes explored: every oracle has its witness, all but the last
\* oracle have, or none has
WitnessIndexes(os) ==
    LET ids == 0 .. OracleSetSize(os) - 1
    IN  {[id \in ids \ missing |-> WitnessOf(os, id)] :
            missing \in {{}, ids \cap {OracleSetSize(os) - 1}, ids}}

\* collect_committed_witnesses(&commit_meta, &oracle_to_commit_index, &oracles, &witness_index)
CollectCommittedWitnesses ==
    /\ metaResult.ok
    /\ ~collected.called
    /\ \E witness_index \in WitnessIndexes(oracles) :
          collected' = [called |-> TRUE,
                        witness_index |-> witness_index,
                        res |-> collect_committed_witnesses(metaResult.n_multilins_by_vars,
                                    metaResult.index, oracles, witness_index)]
    /\ UNCHANGED <<oracles, metaResult, fieldVars, pcsVars, unitVars>>

NextMeta ==
    \/ AddCommitted
    \/ AddRepeating
    \/ MakeOracleCommitMeta
    \/ CollectCommittedWitnesses

SpecMeta == InitMeta /\ [][NextMeta]_vars

(***************************************************************************)
(* Part B.  src/field/binary_field_arithmetic.rs                           *)
(*                                                                         *)
(* An element of tower level k <= 3 is the integer held by the u8 of       *)
(* BinaryField{1,2,4,8}b.  An element of level k >= 4 is the pair          *)
(* <<a0, a1>> of level k-1 elements that `a.into()` yields.                *)
(***************************************************************************)

\* bounds of the elements explored above level 3
MaxLevel == 5
NumSamples == 4

RECURSIVE Pow2(_)
Pow2(n) == IF n = 0 THEN 1 ELSE 2 * Pow2(n - 1)

\* bitwise XOR of two naturals: addition (and subtraction) in characteristic 2
RECURSIVE Xor(_, _)
Xor(a, b) ==
    IF a = 0 THEN b
    ELSE IF b = 0 THEN a
    ELSE 2 * Xor(a \div 2, b \div 2) + ((a + b) % 2)

\* number of bits of a level-k element
Bits(k) == Pow2(k)

\* MUL_4B_LOOKUP: byte (a << 4 | b) >> 1 holds two 4-bit products
MUL_4B_LOOKUP ==
    <<  \h00, \h00, \h00, \h00, \h00, \h00, \h00, \h00,
        \h10, \h32, \h54, \h76, \h98, \hba, \hdc, \hfe,
        \h20, \h13, \ha8, \h9b, \hec, \hdf, \h64, \h57,
        \h30, \h21, \hfc, \hed, \h74, \h65, \hb8, \ha9,
        \h40, \hc8, \hd9, \h51, \hae, \h26, \h37, \hbf,
        \h50, \hfa, \h8d, \h27, \h36, \h9c, \heb, \h41,
        \h60, \hdb, \h71, \hca, \h42, \hf9, \h53, \he8,
        \h70, \he9, \h25, \hbc, \hda, \h43, \h8f, \h16,
        \h80, \h4c, \h6e, \ha2, \hf7, \h3b, \h19, \hd5,
        \h90, \h7e, \h3a, \hd4, \h6f, \h81, \hc5, \h2b,
        \ha0, \h5f, \hc6, \h39, \h1b, \he4, \h7d, \h82,
        \hb0, \h6d, \h92, \h4f, \h83, \h5e, \ha1, \h7c,
        \hc0, \h84, \hb7, \hf3, \h59, \h1d, \h2e, \h6a,
        \hd0, \hb6, \he3, \h85, \hc1, \ha7, \hf2, \h94,
        \he0, \h97, \h1f, \h68, \hb5, \hc2, \h4a, \h3d,
        \hf0, \ha5, \h4b, \h1e, \h2d, \h78, \h96, \hc3 >>

\* INVERSE_8B: inverse table shared by the 2-, 4- and 8-bit fields
INVERSE_8B ==
    <<  \h00, \h01, \h03, \h02, \h06, \h0e, \h04, \h0f,
        \h0d, \h0a, \h09, \h0c, \h0b, \h08, \h05, \h07,
        \h14, \h67, \h94, \h7b, \h10, \h66, \h9e, \h7e,
        \hd2, \h81, \h27, \h4b, \hd1, \h8f, \h2f, \h42,
        \h3c, \he6, \hde, \h7c, \hb3, \hc1, \h4a, \h1a,
        \h30, \he9, \hdd, \h79, \hb1, \hc6, \h43, \h1e,
        \h28, \he8, \h9d, \hb9, \h63, \h39, \h8d, \hc2,
        \h62, \h35, \h83, \hc5, \h20, \he7, \h97, \hbb,
        \h61, \h48, \h1f, \h2e, \hac, \hc8, \hbc, \h56,
        \h41, \h60, \h26, \h1b, \hcf, \haa, \h5b, \hbe,
        \hef, \h73, \h6d, \h5e, \hf7, \h86, \h47, \hbd,
        \h88, \hfc, \hbf, \h4e, \h76, \he0, \h53, \h6c,
        \h49, \h40, \h38, \h34, \he4, \heb, \h15, \h11,
        \h8b, \h85, \haf, \ha9, \h5f, \h52, \h98, \h92,
        \hfb, \hb5, \hee, \h51, \hb7, \hf0, \h5c, \he1,
        \hdc, \h2b, \h95, \h13, \h23, \hdf, \h17, \h9f,
        \hd3, \h19, \hc4, \h3a, \h8a, \h69, \h55, \hf6,
        \h58, \hfd, \h84, \h68, \hc3, \h36, \hd0, \h1d,
        \ha6, \hf3, \h6f, \h99, \h12, \h7a, \hba, \h3e,
        \h6e, \h93, \ha0, \hf8, \hb8, \h32, \h16, \h7f,
        \h9a, \hf9, \he2, \hdb, \hed, \hd8, \h90, \hf2,
        \hae, \h6b, \h4d, \hce, \h44, \hc9, \ha8, \h6a,
        \hc7, \h2c, \hc0, \h24, \hfa, \h71, \hf1, \h74,
        \h9c, \h33, \h96, \h3f, \h46, \h57, \h4f, \h5a,
        \hb2, \h25, \h37, \h8c, \h82, \h3b, \h2d, \hb0,
        \h45, \had, \hd7, \hff, \hf4, \hd4, \hab, \h4c,
        \h8e, \h1c, \h18, \h80, \hcd, \hf5, \hfe, \hca,
        \ha5, \hec, \he3, \ha3, \h78, \h2a, \h22, \h7d,
        \h5d, \h77, \ha2, \hda, \h64, \hea, \h21, \h3d,
        \h31, \h29, \he5, \h65, \hd9, \ha4, \h72, \h50,
        \h75, \hb6, \ha7, \h91, \hcc, \hd5, \h87, \h54,
        \h9b, \ha1, \hb4, \h70, \h59, \h89, \hd6, \hcb >>

\* ALPHA_MAP of BinaryField8b::multiply_alpha
ALPHA_MAP ==
    <<  \h00, \h10, \h20, \h30, \h40, \h50, \h60, \h70,
        \h80, \h90, \ha0, \hb0, \hc0, \hd0, \he0, \hf0,
        \h41, \h51, \h61, \h71, \h01, \h11, \h21, \h31,
        \hc1, \hd1, \he1, \hf1, \h81, \h91, \ha1, \hb1,
        \h82, \h92, \ha2, \hb2, \hc2, \hd2, \he2, \hf2,
        \h02, \h12, \h22, \h32, \h42, \h52, \h62, \h72,
        \hc3, \hd3, \he3, \hf3, \h83, \h93, \ha3, \hb3,
        \h43, \h53, \h63, \h73, \h03, \h13, \h23, \h33,
        \h94, \h84, \hb4, \ha4, \hd4, \hc4, \hf4, \he4,
        \h14, \h04, \h34, \h24, \h54, \h44, \h74, \h64,
        \hd5, \hc5, \hf5, \he5, \h95, \h85, \hb5, \ha5,
        \h55, \h45, \h75, \h65, \h15, \h05, \h35, \h25,
        \h16, \h06, \h36, \h26, \h56, \h46, \h76, \h66,
        \h96, \h86, \hb6, \ha6, \hd6, \hc6, \hf6, \he6,
        \h57, \h47, \h77, \h67, \h17, \h07, \h37, \h27,
        \hd7, \hc7, \hf7, \he7, \h97, \h87, \hb7, \ha7,
        \he8, \hf8, \hc8, \hd8, \ha8, \hb8, \h88, \h98,
        \h68, \h78, \h48, \h58, \h28, \h38, \h08, \h18,
        \ha9, \hb9, \h89, \h99, \he9, \hf9, \hc9, \hd9,
        \h29, \h39, \h09, \h19, \h69, \h79, \h49, \h59,
        \h6a, \h7a, \h4a, \h5a, \h2a, \h3a, \h0a, \h1a,
        \hea, \hfa, \hca, \hda, \haa, \hba, \h8a, \h9a,
        \h2b, \h3b, \h0b, \h1b, \h6b, \h7b, \h4b, \h5b,
        \hab, \hbb, \h8b, \h9b, \heb, \hfb, \hcb, \hdb,
        \h7c, \h6c, \h5c, \h4c, \h3c, \h2c, \h1c, \h0c,
        \hfc, \hec, \hdc, \hcc, \hbc, \hac, \h9c, \h8c,
        \h3d, \h2d, \h1d, \h0d, \h7d, \h6d, \h5d, \h4d,
        \hbd, \had, \h9d, \h8d, \hfd, \hed, \hdd, \hcd,
        \hfe, \hee, \hde, \hce, \hbe, \hae, \h9e, \h8e,
        \h7e, \h6e, \h5e, \h4e, \h3e, \h2e, \h1e, \h0e,
        \hbf, \haf, \h9f, \h8f, \hff, \hef, \hdf, \hcf,
        \h3f, \h2f, \h1f, \h0f, \h7f, \h6f, \h5f, \h4f >>

\* SQUARE_MAP of BinaryField8b::square
SQUARE_MAP ==
    <<  \h00, \h01, \h03, \h02, \h09, \h08, \h0a, \h0b,
        \h07, \h06, \h04, \h05, \h0e, \h0f, \h0d, \h0c,
        \h41, \h40, \h42, \h43, \h48, \h49, \h4b, \h4a,
        \h46, \h47, \h45, \h44, \h4f, \h4e, \h4c, \h4d,
        \hc3, \hc2, \hc0, \hc1, \hca, \hcb, \hc9, \hc8,
        \hc4, \hc5, \hc7, \hc6, \hcd, \hcc, \hce, \hcf,
        \h82, \h83, \h81, \h80, \h8b, \h8a, \h88, \h89,
        \h85, \h84, \h86, \h87, \h8c, \h8d, \h8f, \h8e,
        \ha9, \ha8, \haa, \hab, \ha0, \ha1, \ha3, \ha2,
        \hae, \haf, \had, \hac, \ha7, \ha6, \ha4, \ha5,
        \he8, \he9, \heb, \hea, \he1, \he0, \he2, \he3,
        \hef, \hee, \hec, \hed, \he6, \he7, \he5, \he4,
        \h6a, \h6b, \h69, \h68, \h63, \h62, \h60, \h61,
        \h6d, \h6c, \h6e, \h6f, \h64, \h65, \h67, \h66,
        \h2b, \h2a, \h28, \h29, \h22, \h23, \h21, \h20,
        \h2c, \h2d, \h2f, \h2e, \h25, \h24, \h26, \h27,
        \h57, \h56, \h54, \h55, \h5e, \h5f, \h5d, \h5c,
        \h50, \h51, \h53, \h52, \h59, \h58, \h5a, \h5b,
        \h16, \h17, \h15, \h14, \h1f, \h1e, \h1c, \h1d,
        \h11, \h10, \h12, \h13, \h18, \h19, \h1b, \h1a,
        \h94, \h95, \h97, \h96, \h9d, \h9c, \h9e, \h9f,
        \h93, \h92, \h90, \h91, \h9a, \h9b, \h99, \h98,
        \hd5, \hd4, \hd6, \hd7, \hdc, \hdd, \hdf, \hde,
        \hd2, \hd3, \hd1, \hd0, \hdb, \hda, \hd8, \hd9,
        \hfe, \hff, \hfd, \hfc, \hf7, \hf6, \hf4, \hf5,
        \hf9, \hf8, \hfa, \hfb, \hf0, \hf1, \hf3, \hf2,
        \hbf, \hbe, \hbc, \hbd, \hb6, \hb7, \hb5, \hb4,
        \hb8, \hb9, \hbb, \hba, \hb1, \hb0, \hb2, \hb3,
        \h3d, \h3c, \h3e, \h3f, \h34, \h35, \h37, \h36,
        \h3a, \h3b, \h39, \h38, \h33, \h32, \h30, \h31,
        \h7c, \h7d, \h7f, \h7e, \h75, \h74, \h76, \h77,
        \h7b, \h7a, \h78, \h79, \h72, \h73, \h71, \h70 >>

\* the lookup with the two nibbles of an entry taken the other way round
mul_bin_4b_other_nibble(a, b) ==
    LET idx == ((a * 16) % 256) + b
        entry == MUL_4B_LOOKUP[(idx \div 2) + 1]
    IN  (entry \div (IF idx % 2 = 1 THEN 1 ELSE 16)) % 16

\* mul_bin_4b: idx = a << 4 | b in u8 arithmetic; a, b < 16 so the OR is a sum
mul_bin_4b(a, b) ==
    LET idx == ((a * 16) % 256) + b
        entry == MUL_4B_LOOKUP[(idx \div 2) + 1]
    IN  (entry \div (IF idx % 2 = 1 THEN 16 ELSE 1)) % 16

\* (a0, a1) = a.into(): low half, high half
Split(k, a) ==
    IF k <= 3
    THEN <<a % Pow2(Bits(k - 1)), a \div Pow2(Bits(k - 1))>>
    ELSE a

\* (a0, a1).into()
Join(k, a0, a1) ==
    IF k <= 3 THEN a0 + Pow2(Bits(k - 1)) * a1 ELSE <<a0, a1>>

RECURSIVE Zero(_)
Zero(k) == IF k <= 3 THEN 0 ELSE <<Zero(k - 1), Zero(k - 1)>>

RECURSIVE One(_)
One(k) == IF k <= 3 THEN 1 ELSE <<One(k - 1), Zero(k - 1)>>

\* Add / Sub of the field types: XOR of the underlying bits
RECURSIVE FAdd(_, _, _)
FAdd(k, a, b) ==
    IF k <= 3 THEN Xor(a, b)
    ELSE <<FAdd(k - 1, a[1], b[1]), FAdd(k - 1, a[2], b[2])>>

RECURSIVE multiply(_, _, _)
RECURSIVE multiply_alpha(_, _)

\* the halves swapped without the alpha multiple of the high half
multiply_alpha_rec_no_add(k, a) ==
    LET a0 == Split(k, a)[1]
        a1 == Split(k, a)[2]
    IN  Join(k, a1, a0)

\* fn multiply_alpha<F>(a): (a1, a0 + a1.multiply_alpha())
multiply_alpha_rec(k, a) ==
    LET a0 == Split(k, a)[1]
        a1 == Split(k, a)[2]
        z1 == multiply_alpha(k - 1, a1)
    IN  Join(k, a1, FAdd(k - 1, a0, z1))

\* the recurrence with a1 * b0 taken for the high product z2
multiply_rec_cross_term(k, a, b) ==
    LET a0 == Split(k, a)[1]
        a1 == Split(k, a)[2]
        b0 == Split(k, b)[1]
        b1 == Split(k, b)[2]
        z0 == multiply(k - 1, a0, b0)
        z2 == multiply(k - 1, a1, b0)
        z0z2 == FAdd(k - 1, z0, z2)
        z1 == FAdd(k - 1,
                   multiply(k - 1, FAdd(k - 1, a0, a1), FAdd(k - 1, b0, b1)),
                   z0z2)
        z2a == multiply_alpha(k - 1, z2)
    IN  Join(k, z0z2, FAdd(k - 1, z1, z2a))

\* the recurrence with the middle product left as (a0 + a1) * (b0 + b1)
multiply_rec_plain_middle(k, a, b) ==
    LET a0 == Split(k, a)[1]
        a1 == Split(k, a)[2]
        b0 == Split(k, b)[1]
        b1 == Split(k, b)[2]
        z0 == multiply(k - 1, a0, b0)
        z2 == multiply(k - 1, a1, b1)
        z0z2 == FAdd(k - 1, z0, z2)
        z1 == multiply(k - 1, FAdd(k - 1, a0, a1), FAdd(k - 1, b0, b1))
        z2a == multiply_alpha(k - 1, z2)
    IN  Join(k, z0z2, FAdd(k - 1, z1, z2a))

\* the recurrence without the term alpha * z2 in the high half
multiply_rec_no_alpha(k, a, b) ==
    LET a0 == Split(k, a)[1]
        a1 == Split(k, a)[2]
        b0 == Split(k, b)[1]
        b1 == Split(k, b)[2]
        z0 == multiply(k - 1, a0, b0)
        z2 == multiply(k - 1, a1, b1)
        z0z2 == FAdd(k - 1, z0, z2)
        z1 == FAdd(k - 1,
                   multiply(k - 1, FAdd(k - 1, a0, a1), FAdd(k - 1, b0, b1)),
                   z0z2)
        z2a == multiply_alpha(k - 1, z2)
    IN  Join(k, z0z2, z1)

\* fn multiply<F>(a, b): the Karatsuba recurrence over the direct subfield
multiply_rec(k, a, b) ==
    LET a0 == Split(k, a)[1]
        a1 == Split(k, a)[2]
        b0 == Split(k, b)[1]
        b1 == Split(k, b)[2]
        z0 == multiply(k - 1, a0, b0)
        z2 == multiply(k - 1, a1, b1)
        z0z2 == FAdd(k - 1, z0, z2)
        z1 == FAdd(k - 1,
                   multiply(k - 1, FAdd(k - 1, a0, a1), FAdd(k - 1, b0, b1)),
                   z0z2)
        z2a == multiply_alpha(k - 1, z2)
    IN  Join(k, z0z2, FAdd(k - 1, z1, z2a))

\* TowerFieldArithmetic::multiply of the level-k type
multiply(k, a, b) ==
    IF k = 0 THEN (IF a = 1 /\ b = 1 THEN 1 ELSE 0)
    ELSE IF k <= 2 THEN mul_bin_4b(a, b)
    ELSE multiply_rec(k, a, b)

\* TowerFieldArithmetic::multiply_alpha of the level-k type
multiply_alpha(k, a) ==
    IF k = 0 THEN a
    ELSE IF k = 1 THEN multiply(1, a, 2)
    ELSE IF k = 2 THEN multiply(2, a, 4)
    ELSE IF k = 3 THEN ALPHA_MAP[a + 1]
    ELSE multiply_alpha_rec(k, a)

RECURSIVE square(_, _)

\* the square with the high half a1^2 not multiplied by alpha
square_rec_no_alpha(k, a) ==
    LET a0 == Split(k, a)[1]
        a1 == Split(k, a)[2]
        z0 == square(k - 1, a0)
        z2 == square(k - 1, a1)
    IN  Join(k, FAdd(k - 1, z0, z2), z2)

\* fn square<F>(a): (a0^2 + a1^2, alpha * a1^2)
square_rec(k, a) ==
    LET a0 == Split(k, a)[1]
        a1 == Split(k, a)[2]
        z0 == square(k - 1, a0)
        z2 == square(k - 1, a1)
        z2a == multiply_alpha(k - 1, z2)
    IN  Join(k, FAdd(k - 1, z0, z2), z2a)

\* TowerFieldArithmetic::square of the level-k type
square(k, a) ==
    IF k = 0 THEN a
    ELSE IF k <= 2 THEN multiply(k, a, a)
    ELSE IF k = 3 THEN SQUARE_MAP[a + 1]
    ELSE square_rec(k, a)

\* CtOption::new(value, is_some)
CtOption(value, is_some) == [is_some |-> is_some, value |-> value]

RECURSIVE invert(_, _)

\* the closure of delta.invert().map(..): (delta_inv * a0z1, delta_inv * a1)
invert_map(k, delta_inv, a0z1, a1) ==
    Join(k, multiply(k - 1, delta_inv, a0z1), multiply(k - 1, delta_inv, a1))

\* the recursive inverse with the alpha term of a0z1 left out
invert_rec_no_alpha(k, a) ==
    LET a0 == Split(k, a)[1]
        a1 == Split(k, a)[2]
        a0z1 == a0
        delta == FAdd(k - 1, multiply(k - 1, a0, a0z1), square(k - 1, a1))
        dinv == invert(k - 1, delta)
        held == IF dinv.is_some THEN dinv.value ELSE Zero(k - 1)
    IN  CtOption(invert_map(k, held, a0z1, a1), dinv.is_some)

\* fn invert<F>(a); CtOption::map applies the closure to the held value, which
\* is the default (zero) when the option is none
invert_rec(k, a) ==
    LET a0 == Split(k, a)[1]
        a1 == Split(k, a)[2]
        a0z1 == FAdd(k - 1, a0, multiply_alpha(k - 1, a1))
        delta == FAdd(k - 1, multiply(k - 1, a0, a0z1), square(k - 1, a1))
        dinv == invert(k - 1, delta)
        held == IF dinv.is_some THEN dinv.value ELSE Zero(k - 1)
    IN  CtOption(invert_map(k, held, a0z1, a1), dinv.is_some)

\* INVERSE_8B[self.0], some iff self.0 != 0
invert_table(a) == CtOption(INVERSE_8B[a + 1], a # 0)

\* TowerFieldArithmetic::invert of the level-k type
invert(k, a) ==
    IF k = 0 THEN CtOption(a, a # 0)
    ELSE IF k <= 3 THEN invert_table(a)
    ELSE invert_rec(k, a)

\* the bytes that sampled elements above level 4 are built from
SampleByte(i) == IF i < 2 THEN i ELSE (i * 83) % 256
SampleBytes == {SampleByte(i) : i \in 0 .. NumSamples - 1}

\* a few elements of level k >= 3, closed under nothing: 0, 0xa5 and their pairs
RECURSIVE Corner(_)
Corner(k) == IF k = 3 THEN {0, \ha5} ELSE Corner(k - 1) \X Corner(k - 1)

\* the level-k elements (k >= 4) that level k+1 elements are built from
Sample(k) == IF k = 4 THEN SampleBytes \X SampleBytes ELSE Corner(k)

\* the level-k elements explored: every element up to level 4 (16 bits),
\* pairs of sampled halves above
Elems(k) ==
    IF k <= 3 THEN 0 .. Pow2(Bits(k)) - 1
    ELSE IF k = 4 THEN (0 .. 255) \X (0 .. 255)
    ELSE Sample(k - 1) \X Sample(k - 1)

Levels == 0 .. MaxLevel

\* one element of level k >= 3 with no zero half
RECURSIVE Generic(_)
Generic(k) == IF k = 3 THEN \ha5 ELSE <<Generic(k - 1), One(k - 1)>>

\* a few elements of every level, among them elements of the subfield below
Few(k) ==
    IF k <= 2 THEN Elems(k)
    ELSE IF k = 3 THEN SampleBytes \cup {\ha5, \h1c}
    ELSE {Zero(k), One(k), Generic(k),
          <<Generic(k - 1), Zero(k - 1)>>, <<Generic(k - 1), Generic(k - 1)>>,
          <<Zero(k - 1), Generic(k - 1)>>}

\* the operands of the binary operations: every pair up to level 3, pairs of a
\* few elements and the generator (0, 1) above
Operands(k) == IF k <= 3 THEN Elems(k) ELSE Few(k) \cup {<<Zero(k - 1), One(k - 1)>>}

\* the operands of square and multiply_alpha: every element up to level 3, every
\* low byte with a few high bytes at level 4, the explored elements above
Args(k) ==
    IF k <= 3 THEN Elems(k)
    ELSE IF k = 4 THEN ((0 .. 255) \X Few(3)) \cup Few(4)
    ELSE Elems(k) \cup Few(k)

\* no field operation yet; the oracle set of the other part stays empty
InitField ==
    /\ fcall = NoCall
    /\ oracles = <<>>
    /\ metaResult = NoResult
    /\ batch = <<>>
    /\ point = <<>>
    /\ claimed = <<>>
    /\ commitRes = [ok |-> FALSE, err |-> "not called"]
    /\ commitArg = <<>>
    /\ proveRun = [called |-> FALSE]
    /\ proveRun2 = [called |-> FALSE]
    /\ handoff = [given |-> FALSE]
    /\ verifyRun = [called |-> FALSE]
    /\ collected = [called |-> FALSE]
    /\ built = [called |-> FALSE]
    /\ mixCall = [called |-> FALSE]

\* x.invert()
Invert ==
    /\ fcall = NoCall
    /\ \E k \in Levels : \E x \in Elems(k) :
        fcall' = [op |-> "invert", level |-> k, x |-> x, res |-> invert(k, x)]
    /\ UNCHANGED <<metaVars, pcsVars, unitVars>>

\* x.square()
Square ==
    /\ fcall = NoCall
    /\ \E k \in Levels : \E x \in Args(k) :
        fcall' = [op |-> "square", level |-> k, x |-> x, res |-> square(k, x)]
    /\ UNCHANGED <<metaVars, pcsVars, unitVars>>

\* x.multiply_alpha()
MultiplyAlpha ==
    /\ fcall = NoCall
    /\ \E k \in Levels : \E x \in Args(k) :
        fcall' = [op |-> "multiply_alpha", level |-> k, x |-> x,
                  res |-> multiply_alpha(k, x)]
    /\ UNCHANGED <<metaVars, pcsVars, unitVars>>

\* x * y
Multiply ==
    /\ fcall = NoCall
    /\ \E k \in Levels : \E x \in Operands(k) : \E y \in Operands(k) :
        fcall' = [op |-> "multiply", level |-> k, x |-> x, y |-> y,
                  res |-> multiply(k, x, y)]
    /\ UNCHANGED <<metaVars, pcsVars, unitVars>>

\* x + y
Add ==
    /\ fcall = NoCall
    /\ \E k \in Levels : \E x \in Few(k) : \E y \in Few(k) :
        fcall' = [op |-> "add", level |-> k, x |-> x, y |-> y, res |-> FAdd(k, x, y)]
    /\ UNCHANGED <<metaVars, pcsVars, unitVars>>

NextField ==
    \/ Invert
    \/ Square
    \/ MultiplyAlpha
    \/ Multiply
    \/ Add

SpecField == InitField /\ [][NextField]_vars

(***************************************************************************)
(* Claims about make_oracle_commit_meta (checked under SpecMeta)           *)
(***************************************************************************)

MetaCalled == metaResult # NoResult
MetaOk == metaResult.ok

OracleIds == 0 .. Len(oracles) - 1
CommittedIds == {id \in OracleIds : OracleById(oracles, id).kind = "Committed"}

\* pv = n_vars - (T - t), stated independently of the code's helper
PackedVars(id) ==
    OracleById(oracles, id).n_vars - (TOWER_LEVEL - OracleById(oracles, id).tower_level)

TooSmallIds == {id \in CommittedIds : PackedVars(id) < 0}

\* C1: on success the oracle-id -> commit-index map is defined exactly on the
\* Committed oracles and is a bijection from them onto [0, total_multilins).
C1_IndexBijection ==
    MetaOk =>
        LET idx == metaResult.index
            total == total_multilins(metaResult.n_multilins_by_vars)
        IN  /\ DOMAIN idx = CommittedIds
            /\ \A a, b \in DOMAIN idx : idx[a] = idx[b] => a = b
            /\ {idx[a] : a \in DOMAIN idx} = 0 .. total - 1

C1_Witness ==
    /\ MetaOk
    /\ Cardinality(CommittedIds) >= 2
    /\ \E id \in OracleIds : OracleById(oracles, id).kind = "Repeating"

\* C2: commit indices ascend with the packed variable count, and the indices of
\* the committed oracles with packed variable count v are exactly range_by_vars(v).
C2_GroupedAscending ==
    MetaOk =>
        LET idx == metaResult.index
            counts == metaResult.n_multilins_by_vars
        IN  /\ \A a, b \in CommittedIds :
                  PackedVars(a) < PackedVars(b) => idx[a] < idx[b]
            /\ \A a \in CommittedIds : PackedVars(a) < Len(counts)
            /\ \A v \in 0 .. Len(counts) - 1 :
                  {idx[a] : a \in {c \in CommittedIds : PackedVars(c) = v}}
                      = range_by_vars(counts, v).start .. range_by_vars(counts, v).end - 1

C2_Witness ==
    /\ MetaOk
    /\ \E a, b \in CommittedIds :
          /\ a < b
          /\ PackedVars(a) > PackedVars(b)
          /\ metaResult.index[a] > metaResult.index[b]

\* C3: index(o) = #(committed with smaller pv) + #(committed with equal pv that
\* precede o); n_multilins_by_vars[v] counts the committed oracles with pv = v.
C3_IndexFormula ==
    MetaOk =>
        LET idx == metaResult.index
            counts == metaResult.n_multilins_by_vars
        IN  /\ \A o \in CommittedIds :
                  idx[o] = Cardinality({c \in CommittedIds : PackedVars(c) < PackedVars(o)})
                         + Cardinality({c \in CommittedIds :
                                           PackedVars(c) = PackedVars(o) /\ c < o})
            /\ \A v \in 0 .. Len(counts) - 1 :
                  counts[v + 1] = Cardinality({c \in CommittedIds : PackedVars(c) = v})
            /\ \A o \in CommittedIds : PackedVars(o) < Len(counts)

C3_Witness ==
    /\ MetaOk
    /\ \E a, b, c \in CommittedIds :
          /\ a < b /\ b < c
          /\ PackedVars(a) = PackedVars(b)
          /\ PackedVars(c) < PackedVars(a)
          /\ metaResult.index[b] = metaResult.index[a] + 1

\* C4: the call fails exactly when some committed oracle has n_vars < T - t; the
\* error is OracleTooSmall with the id of the (first) such oracle and
\* min_vars = T - t, and it carries neither a CommitMeta nor an index.
C4_OracleTooSmall ==
    MetaCalled =>
        /\ MetaOk <=> TooSmallIds = {}
        /\ ~MetaOk =>
              /\ DOMAIN metaResult = {"ok", "err", "id", "min_vars"}
              /\ metaResult.err = "OracleTooSmall"
              /\ metaResult.id \in TooSmallIds
              /\ \A o \in TooSmallIds : metaResult.id <= o
              /\ metaResult.min_vars =
                     TOWER_LEVEL - OracleById(oracles, metaResult.id).tower_level
        /\ MetaOk =>
              \A o \in CommittedIds :
                  LET r == range_by_vars(metaResult.n_multilins_by_vars, PackedVars(o))
                  IN  r.start <= metaResult.index[o] /\ metaResult.index[o] < r.end

C4_Witness ==
    /\ MetaCalled
    /\ ~MetaOk
    /\ metaResult.id > 0
    /\ \E o \in CommittedIds : o < metaResult.id
    /\ Cardinality(TooSmallIds) >= 2

\* the mapped oracles that have no witness in the witness index given
Unwitnessed == {id \in DOMAIN metaResult.index : id \notin DOMAIN collected.witness_index}

\* C16 -- with the CommitMeta and index of make_oracle_commit_meta,
\* collect_committed_witnesses returns a vector of length total_multilins whose
\* position i holds the witness of the oracle mapped to commit index i; if a
\* mapped oracle has no witness the lookup error is returned and no vector.
C16_CollectInCommitOrder ==
    collected.called =>
        IF Unwitnessed = {}
        THEN /\ collected.res.ok
             /\ Len(collected.res.witnesses)
                    = total_multilins(metaResult.n_multilins_by_vars)
             /\ \A id \in DOMAIN metaResult.index :
                    collected.res.witnesses[metaResult.index[id] + 1] = WitnessOf(oracles, id)
        ELSE /\ ~collected.res.ok
             /\ DOMAIN collected.res = {"ok", "err", "id"}
             /\ collected.res.err = "MissingWitness"
             /\ collected.res.id \in Unwitnessed

C16_Witness ==
    /\ collected.called
    /\ collected.res.ok
    /\ Len(collected.res.witnesses) >= 2
    /\ \E a, b \in DOMAIN metaResult.index :
          a < b /\ metaResult.index[a] > metaResult.index[b]
    /\ \E id \in 0 .. Len(oracles) - 1 : id \notin DOMAIN collected.witness_index

(***************************************************************************)
(* Claims about the tower arithmetic (checked under SpecField)             *)
(***************************************************************************)

\* C10: at every level, invert(0) is none, and for x # 0 invert(x) is some y
\* with multiply(y, x) = 1 (table inverse at levels 1-3, recursion above).
C10_InvertCorrect ==
    fcall.op = "invert" =>
        LET k == fcall.level
            x == fcall.x
            r == fcall.res
        IN  /\ (x = Zero(k)) <=> ~r.is_some
            /\ x # Zero(k) => multiply(k, r.value, x) = One(k)

C10_Witness ==
    /\ fcall.op = "invert"
    /\ fcall.level = 4
    /\ fcall.x[1] # 0
    /\ fcall.x[2] # 0
    /\ fcall.res.is_some
    /\ fcall.res.value # fcall.x

\* C11 -- at every level square(x) = multiply(x, x): the SQUARE_MAP entry of
\* every byte is its Karatsuba product with itself, and above level 3 the
\* recursive square equals the recursive product.
C11_SquareIsProduct ==
    fcall.op = "square" =>
        /\ fcall.res = multiply(fcall.level, fcall.x, fcall.x)
        /\ fcall.level >= 3 =>
              /\ fcall.res = multiply_rec(fcall.level, fcall.x, fcall.x)
              /\ square_rec(fcall.level, fcall.x) = fcall.res

C11_Witness ==
    /\ fcall.op = "square"
    /\ fcall.level = 4
    /\ fcall.x[2] > 1
    /\ fcall.res[1] # 0
    /\ fcall.res[2] # 0

\* alpha_k: 1 at level 0, above it the element (0, 1) over the direct subfield
Alpha(k) == IF k = 0 THEN 1 ELSE Join(k, Zero(k - 1), One(k - 1))

\* C12 -- at every level multiply_alpha(x) = multiply(alpha_k, x), with
\* alpha_1 = 0x02, alpha_2 = 0x04, alpha_3 = 0x10; every ALPHA_MAP entry is the
\* Karatsuba product 0x10 * x.
C12_MultiplyAlphaIsProduct ==
    /\ Alpha(1) = 2
    /\ Alpha(2) = 4
    /\ Alpha(3) = 16
    /\ fcall.op = "multiply_alpha" =>
          /\ fcall.res = multiply(fcall.level, Alpha(fcall.level), fcall.x)
          /\ fcall.level = 3 => ALPHA_MAP[fcall.x + 1] = multiply_rec(3, 16, fcall.x)

C12_Witness ==
    /\ fcall.op = "multiply_alpha"
    /\ fcall.level = 4
    /\ fcall.x[1] > 1
    /\ fcall.x[2] > 1
    /\ fcall.res[2] # fcall.x[1]

\* the products of level 3, tabulated once
Mul8b == [a \in 0 .. 255 |-> [b \in 0 .. 255 |-> multiply(3, a, b)]]

Times(k, a, b) == IF k = 3 THEN Mul8b[a][b] ELSE multiply(k, a, b)

\* the sums of level 3, tabulated once
Xor8b == [a \in 0 .. 255 |-> [b \in 0 .. 255 |-> FAdd(3, a, b)]]

Plus(k, a, b) == IF k = 3 THEN Xor8b[a][b] ELSE FAdd(k, a, b)

\* the third operand of associativity and distributivity: every element up to
\* level 3, a few elements above
Thirds(k) == Operands(k)

\* C13 -- at every level multiply is commutative and associative, distributes
\* over addition, multiply(x, 1) = x and multiply(x, 0) = 0.
C13_FieldLaws ==
    fcall.op = "multiply" =>
        LET k == fcall.level
            x == fcall.x
            y == fcall.y
        IN  /\ fcall.res = multiply(k, y, x)
            /\ multiply(k, x, One(k)) = x
            /\ multiply(k, x, Zero(k)) = Zero(k)
            /\ \A z \in Thirds(k) :
                  /\ Times(k, fcall.res, z) = Times(k, x, Times(k, y, z))
                  /\ Times(k, x, Plus(k, y, z))
                        = Plus(k, fcall.res, Times(k, x, z))

C13_Witness ==
    /\ fcall.op = "multiply"
    /\ fcall.level = 3
    /\ fcall.x > 15
    /\ fcall.y > 15
    /\ fcall.x # fcall.y
    /\ fcall.res > 15

\* x at level k - 1 viewed at level k as (x, 0)
Embed(k, x) == Join(k, x, Zero(k - 1))

IsEmbedded(k, a) == Split(k, a)[2] = Zero(k - 1)

Low(k, a) == Split(k, a)[1]

\* a recorded call at a level above 0 whose operands all lie in the subfield below
EmbeddedCall ==
    /\ fcall.op # "none"
    /\ fcall.level >= 1
    /\ IsEmbedded(fcall.level, fcall.x)
    /\ fcall.op \in {"multiply", "add"} => IsEmbedded(fcall.level, fcall.y)

\* add, multiply, square and invert on embedded operands give the embedding of
\* the result one level below
EmbeddingAgrees ==
    LET k == fcall.level
        x == Low(k, fcall.x)
    IN  /\ fcall.op = "add" =>
              fcall.res = Embed(k, FAdd(k - 1, x, Low(k, fcall.y)))
        /\ fcall.op = "multiply" =>
              fcall.res = Embed(k, multiply(k - 1, x, Low(k, fcall.y)))
        /\ fcall.op = "square" => fcall.res = Embed(k, square(k - 1, x))
        /\ fcall.op = "invert" =>
              /\ fcall.res.is_some = invert(k - 1, x).is_some
              /\ fcall.res.is_some =>
                    fcall.res.value = Embed(k, invert(k - 1, x).value)

\* C14 as stated -- every operation, multiply_alpha among them, on embedded
\* operands gives the embedding of the result one level below.
C14_AsStated ==
    EmbeddedCall =>
        /\ EmbeddingAgrees
        /\ fcall.op = "multiply_alpha" =>
              fcall.res = Embed(fcall.level,
                                multiply_alpha(fcall.level - 1, Low(fcall.level, fcall.x)))

\* C14 -- add, multiply, square and invert at level k + 1 on (x, 0), (y, 0) give
\* the embedding (r, 0) of the level-k result r; multiply_alpha does not: at
\* level k + 1 it sends (x, 0) to (0, x).
C14_Embedding ==
    EmbeddedCall =>
        /\ EmbeddingAgrees
        /\ fcall.op = "multiply_alpha" =>
              fcall.res = Join(fcall.level, Zero(fcall.level - 1), Low(fcall.level, fcall.x))

C14_Witness ==
    /\ EmbeddedCall
    /\ fcall.op = "multiply"
    /\ fcall.level = 4
    /\ fcall.x[1] > 15
    /\ fcall.y[1] > 15
    /\ fcall.res[1] > 1


(***************************************************************************)
(* Part C.  src/poly_commit/tensor_pcs.rs                                  *)
(*                                                                         *)
(* The instance modelled is a BasicTensorPCS (PI = P) with                 *)
(*   F = FI = FA = BinaryField1b (tower level 0), FE = BinaryField2b       *)
(*   (level 1), every packing width 1, log_rows = 1 and a linear code of   *)
(*   dimension 2 and length 4 with 2 test queries.                         *)
(* Field arithmetic is that of Part B.  The collaborators named by the     *)
(* use-declarations of tensor_pcs.rs (challenger, multilinear extension,   *)
(* linear code, hasher, vector commitment) are modelled from their         *)
(* contracts.                                                              *)
(***************************************************************************)

\* bounds of the batches explored
MaxPolys == 2
PoolSize == 3

\* tower levels of the scalar fields F (= FI = FA) and FE
LevelF == 0
LevelFE == 1

\* <FI as ExtensionField<F>>::DEGREE, FE::DEGREE over F, <FI as ExtensionField<FA>>::DEGREE
DEGREE_FI_F == 1
DEGREE_FE_F == 2
DEGREE_FI_FA == 1

\* P::WIDTH, PI::WIDTH, PE::WIDTH
P_WIDTH == 1
PI_WIDTH == 1
PE_WIDTH == 1

\* self.log_rows
log_rows == 1

\* log2_strict_usize / log2_ceil_usize
RECURSIVE log2_ceil_usize(_)
log2_ceil_usize(n) == IF n <= 1 THEN 0 ELSE 1 + log2_ceil_usize((n + 1) \div 2)

log2_strict_usize(n) == log2_ceil_usize(n)

\* elements of FE, and F viewed inside FE as (x, 0)
ElemsFE == Elems(LevelFE)
ElemsF == Elems(LevelF)
EmbedFE(x) == Join(LevelFE, x, 0)
FEAdd(a, b) == FAdd(LevelFE, a, b)
FEMul(a, b) == multiply(LevelFE, a, b)

RECURSIVE FESum(_)
FESum(s) == IF s = <<>> THEN 0 ELSE FEAdd(s[1], FESum(Tail(s)))

\* inner_product_unchecked(a, b): sum of a[i] * b[i] over the zipped prefix
inner_product_unchecked(a, b) ==
    LET n == IF Len(a) < Len(b) THEN Len(a) ELSE Len(b)
    IN  FESum([i \in 1 .. n |-> FEMul(a[i], b[i])])

(* ---- Challenger (CanObserve<FE> + CanSample<FE> + CanSampleBits<usize>) ---- *)

\* modulus of the transcript state
ChMod == 61

\* a fresh challenger: a transcript state and the log of operations made on it
ChallengerNew == [st |-> 17, log |-> <<>>]

ChObserve(ch, x) ==
    [st |-> (ch.st * 5 + x + 1) % ChMod,
     log |-> Append(ch.log, [op |-> "observe", val |-> x])]

RECURSIVE ChObserveSlice(_, _)
ChObserveSlice(ch, xs) ==
    IF xs = <<>> THEN ch ELSE ChObserveSlice(ChObserve(ch, xs[1]), Tail(xs))

\* sample(): an FE scalar squeezed from the state
ChSample(ch) ==
    [val |-> (ch.st \div 3) % Cardinality(ElemsFE),
     ch |-> [st |-> (ch.st * 7 + 3) % ChMod,
             log |-> Append(ch.log, [op |-> "sample", val |-> (ch.st \div 3) % Cardinality(ElemsFE)])]]

\* sample_vec(n): n samples, one after another
RECURSIVE ChSampleVec(_, _)
ChSampleVec(ch, n) ==
    IF n = 0 THEN [vals |-> <<>>, ch |-> ch]
    ELSE LET s == ChSample(ch)
             rest == ChSampleVec(s.ch, n - 1)
         IN  [vals |-> <<s.val>> \o rest.vals, ch |-> rest.ch]

\* sample_bits(bits): an integer in [0, 2^bits)
ChSampleBits(ch, bits) ==
    [val |-> (ch.st \div 2) % Pow2(bits),
     ch |-> [st |-> (ch.st * 11 + 5) % ChMod,
             log |-> Append(ch.log, [op |-> "sample_bits", bits |-> bits,
                                     val |-> (ch.st \div 2) % Pow2(bits)])]]

(* ---- MultilinearQuery / MultilinearExtension ---- *)

\* MultilinearQuery::with_full_query(q).into_expansion(): entry i is the product
\* over j of (q[j] if bit j of i is set, else 1 - q[j])
RECURSIVE Expansion(_)
Expansion(q) ==
    IF q = <<>> THEN <<1>>
    ELSE LET prev == Expansion(SubSeq(q, 1, Len(q) - 1))
             x == q[Len(q)]
             n == Len(prev)
         IN  [i \in 1 .. 2 * n |->
                 IF i <= n THEN FEMul(prev[i], FEAdd(1, x))
                 ELSE FEMul(prev[i - n], x)]

\* MultilinearExtension::from_values(evals): n_vars = log2(len)
MLE(evals) == [n_vars |-> log2_strict_usize(Len(evals)), evals |-> evals]

\* MultilinearExtension::evaluate(query): none unless query.n_vars() = n_vars
MLEvaluate(poly, q) ==
    IF Len(q) # poly.n_vars THEN [ok |-> FALSE, err |-> "IncorrectQuerySize"]
    ELSE [ok |-> TRUE, val |-> inner_product_unchecked(poly.evals, Expansion(q))]

\* MultilinearExtension::evaluate_partial_high(query): folds the high variables
MLEvaluatePartialHigh(poly, q) ==
    IF Len(q) > poly.n_vars THEN [ok |-> FALSE, err |-> "IncorrectQuerySize"]
    ELSE LET e == Expansion(q)
             w == Pow2(poly.n_vars - Len(q))
         IN  [ok |-> TRUE,
              poly |-> [n_vars |-> poly.n_vars - Len(q),
                        evals |-> [c \in 1 .. w |->
                            FESum([r \in 1 .. Len(e) |->
                                FEMul(EmbedFE(poly.evals[(r - 1) * w + c]), e[r])])]]]

(* ---- LinearCode ---- *)

\* generator matrix of the code over FA: row i is the codeword of unit message i
GeneratorMatrix == << <<1, 0, 1, 1>>, <<0, 1, 1, 0>> >>

code_dim == Len(GeneratorMatrix)
code_len == Len(GeneratorMatrix[1])
code_dim_bits == log2_strict_usize(code_dim)
n_test_queries == 2

\* encode_batch_inplace(buf, log_batch_size): buf holds 2^log_batch_size interleaved
\* messages, symbol i of message b at i * 2^log_batch_size + b; every message is encoded to
\* code_len symbols laid out the same way
encode_batch_inplace(buf, log_batch_size) ==
    LET nbatch == Pow2(log_batch_size)
    IN  [p \in 1 .. code_len * nbatch |->
            LET j == (p - 1) \div nbatch
                b == (p - 1) % nbatch
            IN  FESum([i \in 1 .. code_dim |->
                    multiply(LevelF, GeneratorMatrix[i][j + 1], buf[(i - 1) * nbatch + b + 1])])]

(* ---- Hasher and VectorCommitScheme ---- *)

\* hash::<_, H>(column): a collision-free digest of the column's elements
RECURSIVE HashFrom(_, _)
HashFrom(d, col) ==
    IF col = <<>> THEN d ELSE HashFrom(d * 3 + col[1] + 1, Tail(col))

hash(col) == HashFrom(1, col)

\* commit_batch(digest vectors, one per polynomial): a binding commitment
vcs_commit_batch(all_digests) ==
    [commitment |-> [root |-> all_digests], committed |-> [tree |-> all_digests]]

\* prove_batch_opening(committed, index): the opening of leaf `index` of every vector
vcs_prove_batch_opening(vcs_committed, index) ==
    [index |-> index,
     branch |-> [i \in 1 .. Len(vcs_committed.tree) |-> vcs_committed.tree[i][index + 1]]]

\* verify_batch_opening(commitment, index, proof, leaf_digests)
vcs_verify_batch_opening(commitment, index, vcs_proof, leaf_digests) ==
    /\ vcs_proof.index = index
    /\ Len(leaf_digests) = Len(commitment.root)
    /\ \A i \in 1 .. Len(leaf_digests) :
          /\ leaf_digests[i] = commitment.root[i][index + 1]
          /\ vcs_proof.branch[i] = commitment.root[i][index + 1]

(* ---- TensorPCS ---- *)

Err(e) == [ok |-> FALSE, err |-> e]

\* log_cols(): code.dim_bits() + log2_strict_usize(FI::DEGREE)
log_cols == code_dim_bits + log2_strict_usize(DEGREE_FI_F)

\* PolyCommitScheme::n_vars(): log_rows() + log_cols()
n_vars == log_rows + log_cols

\* RowMajorMatrix::new(values, width) and row_slice(r)
RowMajorMatrix(values, width) == [values |-> values, width |-> width]
row_slice(mat, r) == SubSeq(mat.values, r * mat.width + 1, (r + 1) * mat.width)

\* transpose::transpose(input, output, input_width, input_height)
transpose(input, input_width, input_height) ==
    [p \in 1 .. input_width * input_height |->
        LET c == (p - 1) \div input_height
            r == (p - 1) % input_height
        IN  input[r * input_width + c + 1]]

\* the loop body with the evaluations copied into the buffer as they are
commit_poly_untransposed(poly) ==
    LET n_rows == Pow2(log_rows)
        n_cols_enc == code_len
        msg == poly.evals
        buffer == [p \in 1 .. (n_rows * n_cols_enc) \div PI_WIDTH |->
                      IF p <= (n_rows * code_dim) \div PI_WIDTH THEN msg[p] ELSE 0]
        encoded == encode_batch_inplace(buffer,
                       log_rows + log2_strict_usize(DEGREE_FI_FA))
        chunk == n_rows \div PI_WIDTH
        digests == [j \in 1 .. n_cols_enc |->
                       hash(SubSeq(encoded, (j - 1) * chunk + 1, j * chunk))]
    IN  [digests |-> digests, encoded_mat |-> RowMajorMatrix(encoded, chunk)]

\* the body of commit's loop for one polynomial: transpose into the unencoded part
\* of the buffer, encode every row in place, hash the columns
commit_poly(poly) ==
    LET n_rows == Pow2(log_rows)
        n_cols_enc == code_len
        msg == transpose(poly.evals, Pow2(code_dim_bits), Pow2(log_rows))
        buffer == [p \in 1 .. (n_rows * n_cols_enc) \div PI_WIDTH |->
                      IF p <= (n_rows * code_dim) \div PI_WIDTH THEN msg[p] ELSE 0]
        encoded == encode_batch_inplace(buffer,
                       log_rows + log2_strict_usize(DEGREE_FI_FA))
        chunk == n_rows \div PI_WIDTH
        digests == [j \in 1 .. n_cols_enc |->
                       hash(SubSeq(encoded, (j - 1) * chunk + 1, j * chunk))]
    IN  [digests |-> digests, encoded_mat |-> RowMajorMatrix(encoded, chunk)]

\* the work commit's loop does for the first n polynomials, in the order it
\* does it
RECURSIVE BatchSteps(_)
BatchSteps(n) ==
    IF n = 0 THEN <<>>
    ELSE BatchSteps(n - 1) \o <<[op |-> "transpose", poly |-> n],
                                [op |-> "encode", poly |-> n],
                                [op |-> "hash", poly |-> n]>>

\* commit with the size of each polynomial checked inside the loop that encodes it
commit_checked_in_loop(polys) ==
    IF \E i \in 1 .. Len(polys) : polys[i].n_vars # n_vars
    THEN LET bad == CHOOSE i \in 1 .. Len(polys) :
                        polys[i].n_vars # n_vars /\ \A j \in 1 .. i - 1 : polys[j].n_vars = n_vars
         IN  [ok |-> FALSE, err |-> "IncorrectPolynomialSize", expected |-> n_vars,
              steps |-> BatchSteps(bad - 1)]
    ELSE LET per_poly == [i \in 1 .. Len(polys) |-> commit_poly(polys[i])]
             all_digests == [i \in 1 .. Len(polys) |-> per_poly[i].digests]
             encoded_mats == [i \in 1 .. Len(polys) |-> per_poly[i].encoded_mat]
             vcs == vcs_commit_batch(all_digests)
         IN  [ok |-> TRUE,
              commitment |-> vcs.commitment,
              committed |-> [mats |-> encoded_mats, vcs |-> vcs.committed],
              steps |-> Append(BatchSteps(Len(polys)), [op |-> "commit_batch"])]

\* fn commit(&self, polys); steps is the work done by the call, in order
commit(polys) ==
    IF \E i \in 1 .. Len(polys) : polys[i].n_vars # n_vars
    THEN [ok |-> FALSE, err |-> "IncorrectPolynomialSize", expected |-> n_vars,
          steps |-> <<>>]
    ELSE LET per_poly == [i \in 1 .. Len(polys) |-> commit_poly(polys[i])]
             all_digests == [i \in 1 .. Len(polys) |-> per_poly[i].digests]
             encoded_mats == [i \in 1 .. Len(polys) |-> per_poly[i].encoded_mat]
             vcs == vcs_commit_batch(all_digests)
         IN  [ok |-> TRUE,
              commitment |-> vcs.commitment,
              committed |-> [mats |-> encoded_mats, vcs |-> vcs.committed],
              steps |-> Append(BatchSteps(Len(polys)), [op |-> "commit_batch"])]

\* the lane summed without its mixing coefficients
mix_lane_unweighted(t_primes, mixing_coeffs, i) ==
    LET n == IF Len(t_primes) < Len(mixing_coeffs) THEN Len(t_primes)
             ELSE Len(mixing_coeffs)
    IN  FESum([k \in 1 .. n |-> t_primes[k].evals[i]])

\* the mixed value of one packed lane: sum over the zipped (t_prime, coeff) pairs
mix_lane(t_primes, mixing_coeffs, i) ==
    LET n == IF Len(t_primes) < Len(mixing_coeffs) THEN Len(t_primes)
             ELSE Len(mixing_coeffs)
    IN  FESum([k \in 1 .. n |-> FEMul(t_primes[k].evals[i], mixing_coeffs[k])])

\* collecting a parallel map in completion order instead of index order
collect_in_completion_order(done) == [k \in 1 .. Len(done) |-> done[k].val]

\* into_par_iter().map(..).collect::<Vec<_>>(): the results land at their lane's
\* index whatever the order in which the lanes complete
collect_indexed(done) ==
    [i \in 1 .. Len(done) |->
        (CHOOSE d \in {done[k] : k \in 1 .. Len(done)} : d.lane = i).val]

\* mix_t_primes reporting the variable count it found in place of the expected one
mix_t_primes_expected_found(nv, t_primes, mixing_coeffs, sched) ==
    IF \E k \in 1 .. Len(t_primes) : t_primes[k].n_vars # nv
    THEN [ok |-> FALSE, err |-> "IncorrectPolynomialSize",
          expected |-> t_primes[CHOOSE k \in 1 .. Len(t_primes) : t_primes[k].n_vars # nv].n_vars]
    ELSE LET done == [k \in 1 .. Len(sched) |->
                         [lane |-> sched[k],
                          val |-> mix_lane(t_primes, mixing_coeffs, sched[k])]]
         IN  [ok |-> TRUE, poly |-> MLE(collect_indexed(done))]

\* fn mix_t_primes(n_vars, t_primes, mixing_coeffs); sched is the order in which
\* the parallel lanes complete
mix_t_primes(nv, t_primes, mixing_coeffs, sched) ==
    IF \E k \in 1 .. Len(t_primes) : t_primes[k].n_vars # nv
    THEN [ok |-> FALSE, err |-> "IncorrectPolynomialSize", expected |-> nv]
    ELSE LET done == [k \in 1 .. Len(sched) |->
                         [lane |-> sched[k],
                          val |-> mix_lane(t_primes, mixing_coeffs, sched[k])]]
         IN  [ok |-> TRUE, poly |-> MLE(collect_indexed(done))]

\* the lanes of mix_t_primes: 0 .. (1 << n_vars) / P::WIDTH, numbered from 1
MixLanes(nv) == 1 .. (Pow2(nv) \div PE_WIDTH)

Schedules(nv) ==
    {s \in [MixLanes(nv) -> MixLanes(nv)] : \A a, b \in MixLanes(nv) : s[a] = s[b] => a = b}

\* the opening loop collecting the columns from the last matrix to the first
RECURSIVE prove_openings_reversed(_, _, _, _)
prove_openings_reversed(ch, committed, code_len_bits, left) ==
    IF left = 0 THEN [proofs |-> <<>>, ch |-> ch]
    ELSE LET s == ChSampleBits(ch, code_len_bits)
             index == s.val
             vcs_proof == vcs_prove_batch_opening(committed.vcs, index)
             n == Len(committed.mats)
             cols == [i \in 1 .. n |-> row_slice(committed.mats[n + 1 - i], index)]
             rest == prove_openings_reversed(s.ch, committed, code_len_bits, left - 1)
         IN  [proofs |-> <<[cols |-> cols, vcs_proof |-> vcs_proof]>> \o rest.proofs,
              ch |-> rest.ch]

\* the closure of prove_evaluation's opening loop: one sampled index, its VCS
\* opening and the columns of every committed matrix at that index
RECURSIVE prove_openings(_, _, _, _)
prove_openings(ch, committed, code_len_bits, left) ==
    IF left = 0 THEN [proofs |-> <<>>, ch |-> ch]
    ELSE LET s == ChSampleBits(ch, code_len_bits)
             index == s.val
             vcs_proof == vcs_prove_batch_opening(committed.vcs, index)
             cols == [i \in 1 .. Len(committed.mats) |-> row_slice(committed.mats[i], index)]
             rest == prove_openings(s.ch, committed, code_len_bits, left - 1)
         IN  [proofs |-> <<[cols |-> cols, vcs_proof |-> vcs_proof]>> \o rest.proofs,
              ch |-> rest.ch]

\* fn prove_evaluation(&self, challenger, committed, polys, query): the result and
\* the challenger as the call leaves it
prove_evaluation(ch, committed, polys, query, sched) ==
    LET n_polys == Len(polys)
        n_challenges == log2_ceil_usize(n_polys)
        sampled == ChSampleVec(ch, n_challenges)
        mixing_coefficients == Take(Expansion(sampled.vals), n_polys)
        code_len_bits == log2_strict_usize(code_len)
        log_block_size == log2_strict_usize(DEGREE_FI_F)
        log_n_cols == code_dim_bits + log_block_size
        partial_query == SubSeq(query, log_n_cols + 1, Len(query))
        partials == [i \in 1 .. n_polys |-> MLEvaluatePartialHigh(polys[i], partial_query)]
        t_primes == [i \in 1 .. n_polys |-> partials[i].poly]
        mixed == mix_t_primes(log_n_cols, t_primes, mixing_coefficients, sched)
        observed == ChObserveSlice(sampled.ch, mixed.poly.evals)
        opened == prove_openings(observed, committed, code_len_bits, n_test_queries)
    IN  IF Len(committed.mats) # n_polys
        THEN [res |-> Err("NumBatchedMismatchError"), ch |-> sampled.ch]
        ELSE IF Len(query) # n_vars
        THEN [res |-> Err("IncorrectQuerySize"), ch |-> sampled.ch]
        ELSE IF \E i \in 1 .. n_polys : ~partials[i].ok
        THEN [res |-> Err("IncorrectQuerySize"), ch |-> sampled.ch]
        ELSE IF ~mixed.ok
        THEN [res |-> mixed, ch |-> sampled.ch]
        ELSE [res |-> [ok |-> TRUE,
                       proof |-> [n_polys |-> n_polys,
                                  mixed_t_prime |-> mixed.poly,
                                  vcs_proofs |-> opened.proofs]],
              ch |-> opened.ch]

\* the shape check without the loop over the opened columns' sizes
check_proof_shape_sizes_unchecked(proof) ==
    LET n_rows == Pow2(log_rows)
        log_block_size == log2_strict_usize(DEGREE_FI_F)
        log_n_cols == code_dim_bits + log_block_size
        n_queries == n_test_queries
        \* the (col_idx, poly_idx) places visited by the nested loops, in order
        badBatch(c) == Len(proof.vcs_proofs[c].cols) # proof.n_polys
        badCol(c, p) == Len(proof.vcs_proofs[c].cols[p]) * PI_WIDTH # n_rows
        bad(c) == badBatch(c)
    IN  IF Len(proof.vcs_proofs) # n_queries
        THEN [ok |-> FALSE, err |-> "NumberOfOpeningProofs", expected |-> n_queries]
        ELSE IF \E c \in 1 .. Len(proof.vcs_proofs) : bad(c)
        THEN LET c == CHOOSE c0 \in 1 .. Len(proof.vcs_proofs) :
                          bad(c0) /\ \A c1 \in 1 .. c0 - 1 : ~bad(c1)
             IN  IF badBatch(c)
                 THEN Err("NumBatchedMismatchError")
                 ELSE LET p == CHOOSE p0 \in 1 .. Len(proof.vcs_proofs[c].cols) :
                                   badCol(c, p0) /\ \A p1 \in 1 .. p0 - 1 : ~badCol(c, p1)
                      IN  [ok |-> FALSE, err |-> "OpenedColumnSize",
                           col_index |-> c - 1, poly_index |-> p - 1,
                           expected |-> n_rows,
                           actual |-> Len(proof.vcs_proofs[c].cols[p]) * PI_WIDTH]
        ELSE IF proof.mixed_t_prime.n_vars # log_n_cols
        THEN Err("PartialEvaluationSize")
        ELSE [ok |-> TRUE]

\* fn check_proof_shape(&self, proof)
check_proof_shape(proof) ==
    LET n_rows == Pow2(log_rows)
        log_block_size == log2_strict_usize(DEGREE_FI_F)
        log_n_cols == code_dim_bits + log_block_size
        n_queries == n_test_queries
        \* the (col_idx, poly_idx) places visited by the nested loops, in order
        badBatch(c) == Len(proof.vcs_proofs[c].cols) # proof.n_polys
        badCol(c, p) == Len(proof.vcs_proofs[c].cols[p]) * PI_WIDTH # n_rows
        bad(c) == badBatch(c) \/ \E p \in 1 .. Len(proof.vcs_proofs[c].cols) : badCol(c, p)
    IN  IF Len(proof.vcs_proofs) # n_queries
        THEN [ok |-> FALSE, err |-> "NumberOfOpeningProofs", expected |-> n_queries]
        ELSE IF \E c \in 1 .. Len(proof.vcs_proofs) : bad(c)
        THEN LET c == CHOOSE c0 \in 1 .. Len(proof.vcs_proofs) :
                          bad(c0) /\ \A c1 \in 1 .. c0 - 1 : ~bad(c1)
             IN  IF badBatch(c)
                 THEN Err("NumBatchedMismatchError")
                 ELSE LET p == CHOOSE p0 \in 1 .. Len(proof.vcs_proofs[c].cols) :
                                   badCol(c, p0) /\ \A p1 \in 1 .. p0 - 1 : ~badCol(c, p1)
                      IN  [ok |-> FALSE, err |-> "OpenedColumnSize",
                           col_index |-> c - 1, poly_index |-> p - 1,
                           expected |-> n_rows,
                           actual |-> Len(proof.vcs_proofs[c].cols[p]) * PI_WIDTH]
        ELSE IF proof.mixed_t_prime.n_vars # log_n_cols
        THEN Err("PartialEvaluationSize")
        ELSE [ok |-> TRUE]

\* PackedExtensionField::cast_to_bases: an FE scalar as its DEGREE_FE_F scalars of F,
\* low component first
cast_to_bases(xs) ==
    [p \in 1 .. Len(xs) * DEGREE_FE_F |->
        (xs[((p - 1) \div DEGREE_FE_F) + 1] \div Pow2(((p - 1) % DEGREE_FE_F) * Bits(LevelF)))
            % Pow2(Bits(LevelF))]

\* the inverse view: DEGREE_FE_F consecutive scalars of F as one FE scalar
RECURSIVE cast_from_bases_one(_, _, _)
cast_from_bases_one(bs, e, c) ==
    IF c = DEGREE_FE_F THEN 0
    ELSE bs[(e - 1) * DEGREE_FE_F + c + 1] * Pow2(c * Bits(LevelF))
             + cast_from_bases_one(bs, e, c + 1)

cast_from_bases(bs) ==
    [e \in 1 .. Len(bs) \div DEGREE_FE_F |-> cast_from_bases_one(bs, e, 0)]

\* fn encode_ext(&self, t_prime, u_prime); log_block_size = 0 in this instance, so
\* the two square-transposes are skipped
encode_ext(t_prime) ==
    LET code_len_bits == log2_strict_usize(code_len)
        log_block_size == log2_strict_usize(DEGREE_FI_F)
        log_n_cols == code_dim_bits + log_block_size
        u_len == Pow2(code_len_bits + log_block_size) \div PE_WIDTH
        u_prime == [p \in 1 .. u_len |-> IF p <= Len(t_prime) THEN t_prime[p] ELSE 0]
        log_batch_size == log2_strict_usize(DEGREE_FE_F)
    IN  cast_from_bases(
            encode_batch_inplace(cast_to_bases(u_prime),
                log_batch_size + log2_strict_usize(DEGREE_FI_FA)))

\* the opening loop without the call of verify_batch_opening
RECURSIVE verify_openings_unchecked(_, _, _, _)
verify_openings_unchecked(ch, commitment, code_len_bits, vcs_proofs) ==
    IF vcs_proofs = <<>> THEN [ok |-> TRUE, columns |-> <<>>, ch |-> ch]
    ELSE LET s == ChSampleBits(ch, code_len_bits)
             rest == verify_openings_unchecked(s.ch, commitment, code_len_bits,
                                               Tail(vcs_proofs))
         IN  [ok |-> TRUE,
              columns |-> <<[index |-> s.val, cols |-> vcs_proofs[1].cols]>> \o rest.columns,
              ch |-> rest.ch]

\* the opening loop sampling one bit more than the index needs
RECURSIVE verify_openings_wide_sample(_, _, _, _)
verify_openings_wide_sample(ch, commitment, code_len_bits, vcs_proofs) ==
    IF vcs_proofs = <<>> THEN [ok |-> TRUE, columns |-> <<>>, ch |-> ch]
    ELSE LET s == ChSampleBits(ch, code_len_bits + 1)
             index == s.val % Pow2(code_len_bits)
             cols == vcs_proofs[1].cols
             leaf_digests == [i \in 1 .. Len(cols) |-> hash(cols[i])]
         IN  IF ~vcs_verify_batch_opening(commitment, index,
                                           vcs_proofs[1].vcs_proof, leaf_digests)
             THEN [ok |-> FALSE, err |-> "VectorCommit", ch |-> s.ch]
             ELSE LET rest == verify_openings_wide_sample(s.ch, commitment, code_len_bits,
                                                          Tail(vcs_proofs))
                  IN  IF rest.ok
                      THEN [ok |-> TRUE,
                            columns |-> <<[index |-> index, cols |-> cols]>> \o rest.columns,
                            ch |-> rest.ch]
                      ELSE rest

\* the closure of verify_evaluation's opening loop; collecting into Result stops
\* at the first failed opening
RECURSIVE verify_openings(_, _, _, _)
verify_openings(ch, commitment, code_len_bits, vcs_proofs) ==
    IF vcs_proofs = <<>> THEN [ok |-> TRUE, columns |-> <<>>, ch |-> ch]
    ELSE LET s == ChSampleBits(ch, code_len_bits)
             index == s.val
             cols == vcs_proofs[1].cols
             leaf_digests == [i \in 1 .. Len(cols) |-> hash(cols[i])]
         IN  IF ~vcs_verify_batch_opening(commitment, index,
                                           vcs_proofs[1].vcs_proof, leaf_digests)
             THEN [ok |-> FALSE, err |-> "VectorCommit", ch |-> s.ch]
             ELSE LET rest == verify_openings(s.ch, commitment, code_len_bits,
                                              Tail(vcs_proofs))
                  IN  IF rest.ok
                      THEN [ok |-> TRUE,
                            columns |-> <<[index |-> index, cols |-> cols]>> \o rest.columns,
                            ch |-> rest.ch]
                      ELSE rest

\* the column tests of one opening: for every block sub-index j the expected
\* u'[index << log_block_size | j] and the j-th base-field stripe of every column
column_tests_of(u_prime, opening) ==
    LET block_size == DEGREE_FI_F
        log_block_size == log2_strict_usize(block_size)
        n_rows == Pow2(log_rows)
        stripe == n_rows \div P_WIDTH
    IN  [j \in 1 .. block_size |->
            [expected |-> u_prime[opening.index * Pow2(log_block_size) + (j - 1) + 1],
             leaves |-> [i \in 1 .. Len(opening.cols) |->
                            SubSeq(opening.cols[i], (j - 1) * stripe + 1, j * stripe)]]]

\* one column test: the mixed evaluation of the leaves against the expected u' entry
column_test_passes(test, multilin_query, mixing_coefficients) ==
    LET actual_evals == [i \in 1 .. Len(test.leaves) |->
                            MLEvaluate(MLE([r \in 1 .. Len(test.leaves[i]) |->
                                               EmbedFE(test.leaves[i][r])]),
                                       multilin_query).val]
    IN  inner_product_unchecked(actual_evals, mixing_coefficients) = test.expected

\* verify_evaluation with the shape of the proof checked after t' is observed
verify_evaluation_shape_after_observe(ch, commitment, query, proof, values) ==
    LET n_challenges == log2_ceil_usize(proof.n_polys)
        sampled == ChSampleVec(ch, n_challenges)
        mixing_coefficients == Take(Expansion(sampled.vals), proof.n_polys)
        value == inner_product_unchecked(values, mixing_coefficients)
        shape == check_proof_shape(proof)
        code_len_bits == log2_strict_usize(code_len)
        block_size == DEGREE_FI_F
        log_block_size == log2_strict_usize(block_size)
        log_n_cols == code_dim_bits + log_block_size
        observed == ChObserveSlice(sampled.ch, proof.mixed_t_prime.evals)
        computed_value == MLEvaluate(proof.mixed_t_prime, SubSeq(query, 1, log_n_cols)).val
        u_prime == encode_ext(proof.mixed_t_prime.evals)
        opened == verify_openings(observed, commitment, code_len_bits, proof.vcs_proofs)
        multilin_query == SubSeq(query, log_n_cols + 1, Len(query))
        tests == [c \in 1 .. Len(opened.columns) |-> column_tests_of(u_prime, opened.columns[c])]
    IN  IF Len(values) # proof.n_polys
        THEN [res |-> Err("NumBatchedMismatchError"), ch |-> ch]
        ELSE IF Len(query) # n_vars
        THEN [res |-> Err("IncorrectQuerySize"), ch |-> sampled.ch]
        ELSE IF ~shape.ok
        THEN [res |-> shape, ch |-> observed]
        ELSE IF computed_value # value
        THEN [res |-> Err("IncorrectEvaluation"), ch |-> observed]
        ELSE IF ~opened.ok
        THEN [res |-> Err("VectorCommit"), ch |-> opened.ch]
        ELSE IF \E c \in 1 .. Len(tests) : \E j \in 1 .. Len(tests[c]) :
                    ~column_test_passes(tests[c][j], multilin_query, mixing_coefficients)
        THEN [res |-> Err("IncorrectPartialEvaluation"), ch |-> opened.ch]
        ELSE [res |-> [ok |-> TRUE], ch |-> opened.ch]

\* verify_evaluation with the openings verified before the evaluation of t' is checked
verify_evaluation_openings_first(ch, commitment, query, proof, values) ==
    LET n_challenges == log2_ceil_usize(proof.n_polys)
        sampled == ChSampleVec(ch, n_challenges)
        mixing_coefficients == Take(Expansion(sampled.vals), proof.n_polys)
        value == inner_product_unchecked(values, mixing_coefficients)
        shape == check_proof_shape(proof)
        code_len_bits == log2_strict_usize(code_len)
        block_size == DEGREE_FI_F
        log_block_size == log2_strict_usize(block_size)
        log_n_cols == code_dim_bits + log_block_size
        observed == ChObserveSlice(sampled.ch, proof.mixed_t_prime.evals)
        computed_value == MLEvaluate(proof.mixed_t_prime, SubSeq(query, 1, log_n_cols)).val
        u_prime == encode_ext(proof.mixed_t_prime.evals)
        opened == verify_openings(observed, commitment, code_len_bits, proof.vcs_proofs)
        multilin_query == SubSeq(query, log_n_cols + 1, Len(query))
        tests == [c \in 1 .. Len(opened.columns) |-> column_tests_of(u_prime, opened.columns[c])]
    IN  IF Len(values) # proof.n_polys
        THEN [res |-> Err("NumBatchedMismatchError"), ch |-> ch]
        ELSE IF Len(query) # n_vars
        THEN [res |-> Err("IncorrectQuerySize"), ch |-> sampled.ch]
        ELSE IF ~shape.ok
        THEN [res |-> shape, ch |-> sampled.ch]
        ELSE IF ~opened.ok
        THEN [res |-> Err("VectorCommit"), ch |-> opened.ch]
        ELSE IF computed_value # value
        THEN [res |-> Err("IncorrectEvaluation"), ch |-> opened.ch]
        ELSE IF \E c \in 1 .. Len(tests) : \E j \in 1 .. Len(tests[c]) :
                    ~column_test_passes(tests[c][j], multilin_query, mixing_coefficients)
        THEN [res |-> Err("IncorrectPartialEvaluation"), ch |-> opened.ch]
        ELSE [res |-> [ok |-> TRUE], ch |-> opened.ch]

\* verify_evaluation with the length of values checked after the mixing challenges
\* are sampled
verify_evaluation_values_after_sampling(ch, commitment, query, proof, values) ==
    LET n_challenges == log2_ceil_usize(proof.n_polys)
        sampled == ChSampleVec(ch, n_challenges)
        mixing_coefficients == Take(Expansion(sampled.vals), proof.n_polys)
        value == inner_product_unchecked(values, mixing_coefficients)
        shape == check_proof_shape(proof)
        code_len_bits == log2_strict_usize(code_len)
        block_size == DEGREE_FI_F
        log_block_size == log2_strict_usize(block_size)
        log_n_cols == code_dim_bits + log_block_size
        observed == ChObserveSlice(sampled.ch, proof.mixed_t_prime.evals)
        computed_value == MLEvaluate(proof.mixed_t_prime, SubSeq(query, 1, log_n_cols)).val
        u_prime == encode_ext(proof.mixed_t_prime.evals)
        opened == verify_openings(observed, commitment, code_len_bits, proof.vcs_proofs)
        multilin_query == SubSeq(query, log_n_cols + 1, Len(query))
        tests == [c \in 1 .. Len(opened.columns) |-> column_tests_of(u_prime, opened.columns[c])]
    IN  IF Len(values) # proof.n_polys
        THEN [res |-> Err("NumBatchedMismatchError"), ch |-> sampled.ch]
        ELSE IF Len(query) # n_vars
        THEN [res |-> Err("IncorrectQuerySize"), ch |-> sampled.ch]
        ELSE IF ~shape.ok
        THEN [res |-> shape, ch |-> sampled.ch]
        ELSE IF computed_value # value
        THEN [res |-> Err("IncorrectEvaluation"), ch |-> observed]
        ELSE IF ~opened.ok
        THEN [res |-> Err("VectorCommit"), ch |-> opened.ch]
        ELSE IF \E c \in 1 .. Len(tests) : \E j \in 1 .. Len(tests[c]) :
                    ~column_test_passes(tests[c][j], multilin_query, mixing_coefficients)
        THEN [res |-> Err("IncorrectPartialEvaluation"), ch |-> opened.ch]
        ELSE [res |-> [ok |-> TRUE], ch |-> opened.ch]

\* fn verify_evaluation(&self, challenger, commitment, query, proof, values): the
\* result and the challenger as the call leaves it
verify_evaluation(ch, commitment, query, proof, values) ==
    LET n_challenges == log2_ceil_usize(proof.n_polys)
        sampled == ChSampleVec(ch, n_challenges)
        mixing_coefficients == Take(Expansion(sampled.vals), proof.n_polys)
        value == inner_product_unchecked(values, mixing_coefficients)
        shape == check_proof_shape(proof)
        code_len_bits == log2_strict_usize(code_len)
        block_size == DEGREE_FI_F
        log_block_size == log2_strict_usize(block_size)
        log_n_cols == code_dim_bits + log_block_size
        observed == ChObserveSlice(sampled.ch, proof.mixed_t_prime.evals)
        computed_value == MLEvaluate(proof.mixed_t_prime, SubSeq(query, 1, log_n_cols)).val
        u_prime == encode_ext(proof.mixed_t_prime.evals)
        opened == verify_openings(observed, commitment, code_len_bits, proof.vcs_proofs)
        multilin_query == SubSeq(query, log_n_cols + 1, Len(query))
        tests == [c \in 1 .. Len(opened.columns) |-> column_tests_of(u_prime, opened.columns[c])]
    IN  IF Len(values) # proof.n_polys
        THEN [res |-> Err("NumBatchedMismatchError"), ch |-> ch]
        ELSE IF Len(query) # n_vars
        THEN [res |-> Err("IncorrectQuerySize"), ch |-> sampled.ch]
        ELSE IF ~shape.ok
        THEN [res |-> shape, ch |-> sampled.ch]
        ELSE IF computed_value # value
        THEN [res |-> Err("IncorrectEvaluation"), ch |-> observed]
        ELSE IF ~opened.ok
        THEN [res |-> Err("VectorCommit"), ch |-> opened.ch]
        ELSE IF \E c \in 1 .. Len(tests) : \E j \in 1 .. Len(tests[c]) :
                    ~column_test_passes(tests[c][j], multilin_query, mixing_coefficients)
        THEN [res |-> Err("IncorrectPartialEvaluation"), ch |-> opened.ch]
        ELSE [res |-> [ok |-> TRUE], ch |-> opened.ch]

(* ---- TensorPCS::new ---- *)

\* bounds of the constructor arguments explored
MaxNewLogRows == 2
MaxCodeLen == 4
MaxDegree == 3

\* packing widths of the packed field types
Widths == {1, 2, 4}

\* usize::is_power_of_two
RECURSIVE is_power_of_two(_)
is_power_of_two(n) ==
    IF n = 1 THEN TRUE
    ELSE IF n = 0 \/ n % 2 = 1 THEN FALSE
    ELSE is_power_of_two(n \div 2)

\* the constructor without the check of PE::WIDTH against the code dimension
TensorPCS_new_no_pe_check(lr, code, ty) ==
    IF ~is_power_of_two(code.len) THEN Err("CodeLengthPowerOfTwoRequired")
    ELSE IF ~is_power_of_two(ty.degree_fi_f) THEN Err("ExtensionDegreePowerOfTwoRequired")
    ELSE IF ~is_power_of_two(ty.degree_fe) THEN Err("ExtensionDegreePowerOfTwoRequired")
    ELSE IF Pow2(lr) % ty.p_width # 0 THEN Err("PackingWidthMustDivideNumberOfRows")
    ELSE IF Pow2(lr) % ty.pi_width # 0 THEN Err("PackingWidthMustDivideNumberOfRows")
    ELSE IF code.dim % ty.pi_width # 0 THEN Err("PackingWidthMustDivideCodeDimension")
    ELSE [ok |-> TRUE, log_rows |-> lr, code |-> code, ty |-> ty]

\* pub fn new(log_rows, code, vcs); ty holds the widths and degrees of the type
\* arguments P, PI, PE
TensorPCS_new(lr, code, ty) ==
    IF ~is_power_of_two(code.len) THEN Err("CodeLengthPowerOfTwoRequired")
    ELSE IF ~is_power_of_two(ty.degree_fi_f) THEN Err("ExtensionDegreePowerOfTwoRequired")
    ELSE IF ~is_power_of_two(ty.degree_fe) THEN Err("ExtensionDegreePowerOfTwoRequired")
    ELSE IF Pow2(lr) % ty.p_width # 0 THEN Err("PackingWidthMustDivideNumberOfRows")
    ELSE IF Pow2(lr) % ty.pi_width # 0 THEN Err("PackingWidthMustDivideNumberOfRows")
    ELSE IF code.dim % ty.pi_width # 0 THEN Err("PackingWidthMustDivideCodeDimension")
    ELSE IF code.dim % ty.pe_width # 0 THEN Err("PackingWidthMustDivideCodeDimension")
    ELSE [ok |-> TRUE, log_rows |-> lr, code |-> code, ty |-> ty]

\* pub fn new_using_groestl_merkle_tree(log_rows, code): the length check, then new
new_using_groestl_merkle_tree(lr, code, ty) ==
    IF ~is_power_of_two(code.len) THEN Err("CodeLengthPowerOfTwoRequired")
    ELSE TensorPCS_new(lr, code, ty)

\* the debug assertion at the start of commit
commit_debug_assertions(pcs) == pcs.code.dim % pcs.ty.pi_width = 0

\* the debug assertions at the start of verify_evaluation
verify_debug_assertions(pcs) ==
    /\ pcs.code.dim % pcs.ty.pi_width = 0
    /\ Pow2(pcs.log_rows) % pcs.ty.p_width = 0
    /\ Pow2(pcs.log_rows) % pcs.ty.pi_width = 0
    /\ pcs.code.dim % pcs.ty.pi_width = 0
    /\ pcs.code.dim % pcs.ty.pe_width = 0

\* the linear codes explored: length and dimension
Codes == {c \in [len : 1 .. MaxCodeLen, dim : 1 .. MaxCodeLen] : c.dim <= c.len}

\* the widths and extension degrees of the type arguments explored
TypeArgs ==
    [p_width : Widths, pi_width : Widths, pe_width : Widths,
     degree_fi_f : 1 .. MaxDegree, degree_fe : 1 .. MaxDegree]

InitNew ==
    /\ built = [called |-> FALSE]
    /\ mixCall = [called |-> FALSE]
    /\ collected = [called |-> FALSE]
    /\ oracles = <<>>
    /\ metaResult = NoResult
    /\ fcall = NoCall
    /\ batch = <<>>
    /\ point = <<>>
    /\ claimed = <<>>
    /\ commitRes = [ok |-> FALSE, err |-> "not called"]
    /\ commitArg = <<>>
    /\ proveRun = [called |-> FALSE]
    /\ proveRun2 = [called |-> FALSE]
    /\ handoff = [given |-> FALSE]
    /\ verifyRun = [called |-> FALSE]

\* TensorPCS::new(log_rows, code, vcs)
New ==
    /\ ~built.called
    /\ \E lr \in 0 .. MaxNewLogRows, code \in Codes, ty \in TypeArgs :
          built' = [called |-> TRUE, via |-> "new",
                    log_rows |-> lr, code |-> code, ty |-> ty,
                    res |-> TensorPCS_new(lr, code, ty)]
    /\ UNCHANGED <<mixCall, metaVars, fieldVars, pcsVars>>

\* TensorPCS::new_using_groestl_merkle_tree(log_rows, code)
NewUsingGroestlMerkleTree ==
    /\ ~built.called
    /\ \E lr \in 0 .. MaxNewLogRows, code \in Codes, ty \in TypeArgs :
          built' = [called |-> TRUE, via |-> "new_using_groestl_merkle_tree",
                    log_rows |-> lr, code |-> code, ty |-> ty,
                    res |-> new_using_groestl_merkle_tree(lr, code, ty)]
    /\ UNCHANGED <<mixCall, metaVars, fieldVars, pcsVars>>

NextNew ==
    \/ New
    \/ NewUsingGroestlMerkleTree

SpecNew == InitNew /\ [][NextNew]_vars

\* the powers of two within the bounds, and divisibility, stated directly
PowersOfTwo == {1, 2, 4, 8, 16}

Divides(w, n) == \E q \in 0 .. n : q * w = n

\* the errors whose validation condition fails for the arguments given
FailedValidations ==
    {e \in {"CodeLengthPowerOfTwoRequired"} : built.code.len \notin PowersOfTwo}
    \cup {e \in {"ExtensionDegreePowerOfTwoRequired"} :
             built.ty.degree_fi_f \notin PowersOfTwo \/ built.ty.degree_fe \notin PowersOfTwo}
    \cup {e \in {"PackingWidthMustDivideNumberOfRows"} :
             ~Divides(built.ty.p_width, Pow2(built.log_rows))
             \/ ~Divides(built.ty.pi_width, Pow2(built.log_rows))}
    \cup {e \in {"PackingWidthMustDivideCodeDimension"} :
             ~Divides(built.ty.pi_width, built.code.dim)
             \/ ~Divides(built.ty.pe_width, built.code.dim)}

\* C15 -- TensorPCS::new returns an error and constructs nothing whenever the code
\* length or an extension degree is not a power of two, or a packing width does
\* not divide the number of rows or the code dimension, the error being one
\* whose condition fails; every TensorPCS constructed satisfies the debug
\* assertions at the start of commit and verify_evaluation.
C15_NewValidates ==
    built.called =>
        /\ built.res.ok <=> FailedValidations = {}
        /\ ~built.res.ok =>
              /\ DOMAIN built.res = {"ok", "err"}
              /\ built.res.err \in FailedValidations
        /\ built.res.ok =>
              /\ commit_debug_assertions(built.res)
              /\ verify_debug_assertions(built.res)

C15_Witness ==
    /\ built.called
    /\ ~built.res.ok
    /\ built.res.err = "PackingWidthMustDivideCodeDimension"
    /\ Divides(built.ty.pi_width, built.code.dim)
    /\ built.ty.pe_width = 4
    /\ built.code.dim = 2

(* ---- mix_t_primes on its own ---- *)

\* the values of n_vars the function is called with
MixVars == {0, 1}

\* multilinears over FE with 0 and with 1 variables
MixPool ==
    {MLE(<<(i + 1) % Cardinality(ElemsFE)>>) : i \in 0 .. PoolSize - 1}
        \cup {MLE(<<(i + 2) % Cardinality(ElemsFE), (2 * i + 3) % Cardinality(ElemsFE)>>) :
                  i \in 0 .. PoolSize - 1}

\* the slices handed to the function
MixTPrimeSlices == UNION {[1 .. n -> MixPool] : n \in 1 .. MaxPolys}

MixCoeffSlices == UNION {[1 .. n -> ElemsFE] : n \in 1 .. MaxPolys}

InitMix ==
    /\ mixCall = [called |-> FALSE]
    /\ built = [called |-> FALSE]
    /\ collected = [called |-> FALSE]
    /\ oracles = <<>>
    /\ metaResult = NoResult
    /\ fcall = NoCall
    /\ batch = <<>>
    /\ point = <<>>
    /\ claimed = <<>>
    /\ commitRes = [ok |-> FALSE, err |-> "not called"]
    /\ commitArg = <<>>
    /\ proveRun = [called |-> FALSE]
    /\ proveRun2 = [called |-> FALSE]
    /\ handoff = [given |-> FALSE]
    /\ verifyRun = [called |-> FALSE]

\* mix_t_primes(n_vars, &t_primes, &mixing_coeffs)
MixTPrimes ==
    /\ ~mixCall.called
    /\ \E nv \in MixVars : \E t_primes \in MixTPrimeSlices : \E coeffs \in MixCoeffSlices :
       \E sched \in Schedules(nv) :
          mixCall' = [called |-> TRUE, n_vars |-> nv, t_primes |-> t_primes,
                      coeffs |-> coeffs,
                      res |-> mix_t_primes(nv, t_primes, coeffs, sched)]
    /\ UNCHANGED <<built, metaVars, fieldVars, pcsVars>>

NextMix == MixTPrimes

SpecMix == InitMix /\ [][NextMix]_vars

\* the sum of coeffs[i] * t_primes[i](v) over i = from .. Len(t_primes), v the
\* vertex of the cube with index v - 1
RECURSIVE WeightedSum(_, _, _, _)
WeightedSum(coeffs, t_primes, v, from) ==
    IF from > Len(t_primes) THEN 0
    ELSE FEAdd(FEMul(coeffs[from], t_primes[from].evals[v]),
               WeightedSum(coeffs, t_primes, v, from + 1))

\* C20 -- mix_t_primes(n_vars, t_primes, coeffs) with as many coefficients as
\* polynomials returns the multilinear t' on n_vars variables whose value at
\* every vertex v of the cube is the sum of coeffs[i] * t_primes[i](v); when some
\* t_primes[i] has not n_vars variables it returns IncorrectPolynomialSize with
\* expected = n_vars and no polynomial.
C20_MixTPrimes ==
    (mixCall.called /\ Len(mixCall.t_primes) = Len(mixCall.coeffs)) =>
        IF \E i \in 1 .. Len(mixCall.t_primes) : mixCall.t_primes[i].n_vars # mixCall.n_vars
        THEN mixCall.res = [ok |-> FALSE, err |-> "IncorrectPolynomialSize",
                            expected |-> mixCall.n_vars]
        ELSE /\ mixCall.res.ok
             /\ mixCall.res.poly.n_vars = mixCall.n_vars
             /\ Len(mixCall.res.poly.evals) = Pow2(mixCall.n_vars)
             /\ \A v \in 1 .. Pow2(mixCall.n_vars) :
                   mixCall.res.poly.evals[v]
                       = WeightedSum(mixCall.coeffs, mixCall.t_primes, v, 1)

C20_Witness ==
    /\ mixCall.called
    /\ mixCall.res.ok
    /\ mixCall.n_vars = 1
    /\ Len(mixCall.t_primes) = 2
    /\ Len(mixCall.coeffs) = 2
    /\ mixCall.coeffs[1] > 1
    /\ mixCall.coeffs[2] > 1
    /\ mixCall.coeffs[1] # mixCall.coeffs[2]
    /\ mixCall.res.poly.evals[1] # mixCall.res.poly.evals[2]
    /\ mixCall.res.poly.evals[1] # 0

(* ---- The commit / prove / verify run ---- *)

\* the multilinear over F whose evaluations are the bits of m
PolyOfNumber(m) ==
    [n_vars |-> n_vars, evals |-> [p \in 1 .. Pow2(n_vars) |-> (m \div Pow2(p - 1)) % 2]]

\* the polynomials batches are drawn from
Pool == {PolyOfNumber((i * 7 + 6) % Pow2(Pow2(n_vars))) : i \in 0 .. PoolSize - 1}

Batches == UNION {[1 .. n -> Pool] : n \in 1 .. MaxPolys}

Queries == [1 .. n_vars -> ElemsFE]

\* [evaluate(p, q) for p in polys], as the tests compute the opened claimed
HonestValues(ps, q) ==
    [i \in 1 .. Len(ps) |->
        MLEvaluate(MLE([p \in 1 .. Len(ps[i].evals) |-> EmbedFE(ps[i].evals[p])]), q).val]

\* the challenger handed to prover and verifier: the point is already observed
ChallengerAfterQuery(q) == ChObserveSlice(ChallengerNew, q)

NotCommitted == [ok |-> FALSE, err |-> "not called"]
NotCalled == [called |-> FALSE]
NotGiven == [given |-> FALSE]

InitPCS ==
    /\ batch \in Batches
    /\ point \in Queries
    /\ claimed = HonestValues(batch, point)
    /\ commitRes = NotCommitted
    /\ commitArg = <<>>
    /\ proveRun = NotCalled
    /\ proveRun2 = NotCalled
    /\ handoff = NotGiven
    /\ verifyRun = NotCalled
    /\ collected = [called |-> FALSE]
    /\ built = [called |-> FALSE]
    /\ mixCall = [called |-> FALSE]
    /\ oracles = <<>>
    /\ metaResult = NoResult
    /\ fcall = NoCall

\* the batch, and the batch with a polynomial of one variable fewer or one more
\* than the scheme's n_vars at one position
CommitArgs(polys) ==
    {polys} \cup
        {[polys EXCEPT ![i] = [n_vars |-> nv, evals |-> [p \in 1 .. Pow2(nv) |-> p % 2]]] :
            i \in 1 .. Len(polys), nv \in {n_vars - 1, n_vars + 1}}

\* pcs.commit(&polys)
Commit ==
    /\ commitRes = NotCommitted
    /\ \E polys \in CommitArgs(batch) :
          /\ commitArg' = polys
          /\ commitRes' = commit(polys)
    /\ UNCHANGED <<batch, point, claimed, proveRun, proveRun2, handoff, verifyRun>>
    /\ UNCHANGED <<metaVars, fieldVars, unitVars>>

\* the slice s, s without its last element and s with one element more
OneOff(s, x) == {s, SubSeq(s, 1, Len(s) - 1), Append(s, x)}

\* pcs.prove_evaluation(&mut prove_challenger, &committed, &polys, &query)
ProveEvaluation ==
    /\ commitRes.ok
    /\ ~proveRun.called
    /\ \E polys \in OneOff(batch, batch[1]) : \E sched \in Schedules(log_cols) :
          LET run == prove_evaluation(ChallengerAfterQuery(point), commitRes.committed,
                                      polys, point, sched)
          IN  proveRun' = [called |-> TRUE, polys |-> polys, res |-> run.res, ch |-> run.ch]
    /\ UNCHANGED <<batch, point, claimed, commitRes, commitArg, proveRun2, handoff, verifyRun>>
    /\ UNCHANGED <<metaVars, fieldVars, unitVars>>

\* a second run of prove_evaluation on a clone of the same challenger
ProveEvaluationAgain ==
    /\ proveRun.called
    /\ ~proveRun2.called
    /\ ~handoff.given
    /\ \E sched \in Schedules(log_cols) :
          LET run == prove_evaluation(ChallengerAfterQuery(point), commitRes.committed,
                                      proveRun.polys, point, sched)
          IN  proveRun2' = [called |-> TRUE, polys |-> proveRun.polys, res |-> run.res,
                            ch |-> run.ch]
    /\ UNCHANGED <<batch, point, claimed, commitRes, commitArg, proveRun, handoff, verifyRun>>
    /\ UNCHANGED <<metaVars, fieldVars, unitVars>>

CanHandOver ==
    /\ proveRun.called
    /\ proveRun.res.ok
    /\ ~proveRun2.called
    /\ ~handoff.given

\* the verifier is given the proof as the prover made it
HandOverProof ==
    /\ CanHandOver
    /\ handoff' = [given |-> TRUE, proof |-> proveRun.res.proof, tamper |-> "none"]
    /\ UNCHANGED <<batch, point, claimed, commitRes, commitArg, proveRun, proveRun2, verifyRun>>
    /\ UNCHANGED <<metaVars, fieldVars, unitVars>>

\* the verifier is given the proof with one entry of mixed_t_prime changed
TamperMixedTPrime ==
    /\ CanHandOver
    /\ \E j \in 1 .. Len(proveRun.res.proof.mixed_t_prime.evals) :
       \E v \in ElemsFE \ {proveRun.res.proof.mixed_t_prime.evals[j]} :
          handoff' = [given |-> TRUE,
                      proof |-> [proveRun.res.proof EXCEPT !.mixed_t_prime.evals[j] = v],
                      tamper |-> "mixed_t_prime", entry |-> j]
    /\ UNCHANGED <<batch, point, claimed, commitRes, commitArg, proveRun, proveRun2, verifyRun>>
    /\ UNCHANGED <<metaVars, fieldVars, unitVars>>

\* the verifier is given the proof with one scalar of one opened column changed
TamperColumn ==
    /\ CanHandOver
    /\ \E c \in 1 .. Len(proveRun.res.proof.vcs_proofs) :
       \E p \in 1 .. Len(proveRun.res.proof.vcs_proofs[c].cols) :
       \E r \in 1 .. Len(proveRun.res.proof.vcs_proofs[c].cols[p]) :
       \E v \in ElemsF \ {proveRun.res.proof.vcs_proofs[c].cols[p][r]} :
          handoff' = [given |-> TRUE,
                      proof |-> [proveRun.res.proof EXCEPT !.vcs_proofs[c].cols[p][r] = v],
                      tamper |-> "column", opening |-> c, poly |-> p, row |-> r]
    /\ UNCHANGED <<batch, point, claimed, commitRes, commitArg, proveRun, proveRun2, verifyRun>>
    /\ UNCHANGED <<metaVars, fieldVars, unitVars>>

\* the verifier is given the proof with one entry of mixed_t_prime and one scalar
\* of the first opened column changed
TamperBoth ==
    /\ CanHandOver
    /\ \E j \in 1 .. Len(proveRun.res.proof.mixed_t_prime.evals) :
       \E v \in ElemsFE \ {proveRun.res.proof.mixed_t_prime.evals[j]} :
       \E w \in ElemsF \ {proveRun.res.proof.vcs_proofs[1].cols[1][1]} :
          handoff' = [given |-> TRUE,
                      proof |-> [proveRun.res.proof EXCEPT !.mixed_t_prime.evals[j] = v,
                                                           !.vcs_proofs[1].cols[1][1] = w],
                      tamper |-> "both", entry |-> j]
    /\ UNCHANGED <<batch, point, claimed, commitRes, commitArg, proveRun, proveRun2, verifyRun>>
    /\ UNCHANGED <<metaVars, fieldVars, unitVars>>

\* the ways the shape of a proof is spoilt: the last opening dropped, per opening
\* a column dropped ("count") or a column shortened ("size"), mixed_t_prime halved
Malformations ==
    {m \in [drop : BOOLEAN,
            cols : [1 .. n_test_queries -> {"ok", "count", "size"}],
            tprime : BOOLEAN] :
        m.drop \/ m.tprime \/ \E c \in 1 .. n_test_queries : m.cols[c] # "ok"}

\* the proof spoilt as m says; in opening c the column shortened is that of
\* polynomial ((c - 1) mod n_polys)
Malformed(proof, m) ==
    LET spoilt(c) ==
            LET cols == proof.vcs_proofs[c].cols
                p == ((c - 1) % Len(cols)) + 1
            IN  IF m.cols[c] = "count" THEN SubSeq(cols, 1, Len(cols) - 1)
                ELSE IF m.cols[c] = "size" THEN [cols EXCEPT ![p] = Tail(@)]
                ELSE cols
        openings == [c \in 1 .. Len(proof.vcs_proofs) |->
                        [proof.vcs_proofs[c] EXCEPT !.cols = spoilt(c)]]
        evals == proof.mixed_t_prime.evals
    IN  [n_polys |-> proof.n_polys,
         mixed_t_prime |-> IF m.tprime THEN MLE(SubSeq(evals, 1, Len(evals) \div 2))
                           ELSE proof.mixed_t_prime,
         vcs_proofs |-> IF m.drop THEN SubSeq(openings, 1, Len(openings) - 1)
                        ELSE openings]

\* the verifier is given a proof of the wrong shape
MalformProof ==
    /\ CanHandOver
    /\ \E m \in Malformations :
          handoff' = [given |-> TRUE, proof |-> Malformed(proveRun.res.proof, m),
                      tamper |-> "shape"]
    /\ UNCHANGED <<batch, point, claimed, commitRes, commitArg, proveRun, proveRun2, verifyRun>>
    /\ UNCHANGED <<metaVars, fieldVars, unitVars>>

\* pcs.verify_evaluation(&mut verify_challenger, &commitment, &query, proof, &values)
VerifyEvaluation ==
    /\ handoff.given
    /\ ~verifyRun.called
    /\ \E values \in OneOff(claimed, 0) :
          LET run == verify_evaluation(ChallengerAfterQuery(point), commitRes.commitment,
                                       point, handoff.proof, values)
          IN  verifyRun' = [called |-> TRUE, values |-> values, res |-> run.res,
                            ch |-> run.ch]
    /\ UNCHANGED <<batch, point, claimed, commitRes, commitArg, proveRun, proveRun2, handoff>>
    /\ UNCHANGED <<metaVars, fieldVars, unitVars>>

NextPCS ==
    \/ Commit
    \/ ProveEvaluation
    \/ ProveEvaluationAgain
    \/ HandOverProof
    \/ TamperMixedTPrime
    \/ TamperColumn
    \/ TamperBoth
    \/ MalformProof
    \/ VerifyEvaluation

SpecPCS == InitPCS /\ [][NextPCS]_vars

(* ---- Claims about the commit / prove / verify run ---- *)

\* verify_evaluation was called with the evaluations of the batch as values
Verified == verifyRun.called /\ verifyRun.values = claimed

HonestRun == Verified /\ handoff.tamper = "none"

ProveOk == proveRun.called /\ proveRun.res.ok

\* C5 -- completeness: for every batch of multilinears of n_vars variables and
\* every query of length n_vars, with prover and verifier starting from the same
\* challenger state, commit and prove_evaluation succeed and verify_evaluation of
\* the untouched proof against the true evaluations returns Ok.
C5_Completeness ==
    /\ (commitRes # NotCommitted /\ commitArg = batch) => commitRes.ok
    /\ (proveRun.called /\ proveRun.polys = batch) => proveRun.res.ok
    /\ HonestRun => verifyRun.res = [ok |-> TRUE]

C5_Witness ==
    /\ HonestRun
    /\ verifyRun.res.ok
    /\ Len(batch) = 2
    /\ batch[1] # batch[2]
    /\ \A i \in 1 .. n_vars : point[i] \notin {0, 1}

\* the weight of the tampered entry of mixed_t_prime in t'(query[..log_n_cols])
TamperedEntryWeight == Expansion(SubSeq(point, 1, log_cols))[handoff.entry]

\* C6 as stated -- every tampered proof is rejected with IncorrectEvaluation or
\* IncorrectPartialEvaluation.
C6_AsStated ==
    (Verified /\ handoff.tamper \in {"mixed_t_prime", "column"}) =>
        /\ ~verifyRun.res.ok
        /\ verifyRun.res.err \in {"IncorrectEvaluation", "IncorrectPartialEvaluation"}

\* C6 -- a proof with one scalar of an opened column changed is rejected with
\* VectorCommit; a proof with one entry of mixed_t_prime changed is rejected with
\* IncorrectEvaluation when the entry has a non-zero weight at the query, and
\* otherwise passes the evaluation check and can only be rejected with
\* VectorCommit or IncorrectPartialEvaluation.
C6_TamperRejected ==
    /\ (Verified /\ handoff.tamper = "column") =>
          /\ ~verifyRun.res.ok
          /\ verifyRun.res.err = "VectorCommit"
    /\ (Verified /\ handoff.tamper = "mixed_t_prime") =>
          IF TamperedEntryWeight # 0
          THEN /\ ~verifyRun.res.ok
               /\ verifyRun.res.err = "IncorrectEvaluation"
          ELSE \/ verifyRun.res.ok
               \/ verifyRun.res.err \in {"VectorCommit", "IncorrectPartialEvaluation"}

C6_Witness ==
    /\ Verified
    /\ handoff.tamper = "column"
    /\ Len(batch) = 2
    /\ ~verifyRun.res.ok
    /\ verifyRun.res.err = "VectorCommit"

\* the indices sampled by sample_bits, in the order of the calls
RECURSIVE SampledIndices(_)
SampledIndices(log) ==
    IF log = <<>> THEN <<>>
    ELSE IF log[1].op = "sample_bits" THEN <<log[1].val>> \o SampledIndices(Tail(log))
    ELSE SampledIndices(Tail(log))

\* C7 -- every proof returned by prove_evaluation has n_polys = polys.len() and
\* n_test_queries openings; each opening holds n_polys columns, column i being the
\* row of polynomial i's encoded matrix at the sampled index, of 2^log_rows
\* scalars; the proof passes check_proof_shape.
C7_ProofShape ==
    ProveOk =>
        LET proof == proveRun.res.proof
            indices == SampledIndices(proveRun.ch.log)
        IN  /\ proof.n_polys = Len(batch)
            /\ Len(proof.vcs_proofs) = n_test_queries
            /\ Len(indices) = n_test_queries
            /\ \A c \in 1 .. Len(proof.vcs_proofs) :
                  /\ Len(proof.vcs_proofs[c].cols) = proof.n_polys
                  /\ \A i \in 1 .. Len(proof.vcs_proofs[c].cols) :
                        /\ proof.vcs_proofs[c].cols[i]
                             = row_slice(commit_poly(batch[i]).encoded_mat, indices[c])
                        /\ Len(proof.vcs_proofs[c].cols[i]) * PI_WIDTH = Pow2(log_rows)
            /\ check_proof_shape(proof) = [ok |-> TRUE]

C7_Witness ==
    /\ ProveOk
    /\ Len(batch) = 2
    /\ \E c \in 1 .. n_test_queries :
          proveRun.res.proof.vcs_proofs[c].cols[1] # proveRun.res.proof.vcs_proofs[c].cols[2]

\* two runs of prove_evaluation give the same result and leave equal challengers
ProveDeterministic ==
    proveRun2.called => (proveRun2.res = proveRun.res /\ proveRun2.ch = proveRun.ch)

\* s is a prefix of t
IsPrefix(s, t) == Len(s) <= Len(t) /\ SubSeq(t, 1, Len(s)) = s

\* C8 as stated -- prove_evaluation is deterministic and verify_evaluation changes
\* no state: the challenger it was given is as it was before the call.
C8_AsStated ==
    /\ ProveDeterministic
    /\ Verified => verifyRun.ch = ChallengerAfterQuery(point)

\* C8 -- two runs of prove_evaluation from equal challenger states on the same
\* committed data, polynomials and query give identical proofs and leave the
\* challengers equal; verify_evaluation changes only the challenger it is given,
\* which it advances by its own samples and observations.
C8_Determinism ==
    /\ ProveDeterministic
    /\ Verified =>
          /\ IsPrefix(ChallengerAfterQuery(point).log, verifyRun.ch.log)
          /\ check_proof_shape(handoff.proof).ok =>
                Len(ChallengerAfterQuery(point).log) < Len(verifyRun.ch.log)
          /\ commitRes = commit(batch)
          /\ claimed = HonestValues(batch, point)

C8_Witness ==
    /\ proveRun2.called
    /\ proveRun2.res.ok
    /\ Len(batch) = 2
    /\ proveRun.res.proof.mixed_t_prime.evals[1] # proveRun.res.proof.mixed_t_prime.evals[2]

\* C9 -- a successful prove_evaluation samples ceil(log2 n_polys) mixing
\* challenges, then observes the scalars of the mixed t', then samples
\* n_test_queries indices of log2(code.len()) bits, which are the indices it
\* opens; a successful verify_evaluation makes the same calls with the same
\* arguments and results, so its i-th index is the i-th index the prover opened.
C9_ChallengerOrder ==
    /\ ProveOk =>
          LET log == proveRun.ch.log
              proof == proveRun.res.proof
              k == log2_ceil_usize(Len(batch))
              m == Len(proof.mixed_t_prime.evals)
          IN  /\ Len(log) = n_vars + k + m + n_test_queries
              /\ \A i \in 1 .. n_vars : log[i] = [op |-> "observe", val |-> point[i]]
              /\ \A i \in 1 .. k : log[n_vars + i].op = "sample"
              /\ \A i \in 1 .. m :
                    log[n_vars + k + i]
                        = [op |-> "observe", val |-> proof.mixed_t_prime.evals[i]]
              /\ \A i \in 1 .. n_test_queries :
                    /\ log[n_vars + k + m + i].op = "sample_bits"
                    /\ log[n_vars + k + m + i].bits = log2_strict_usize(code_len)
                    /\ log[n_vars + k + m + i].val = proof.vcs_proofs[i].vcs_proof.index
    /\ (Verified /\ verifyRun.res.ok) =>
          /\ verifyRun.ch.log = proveRun.ch.log
          /\ \A i \in 1 .. n_test_queries :
                SampledIndices(verifyRun.ch.log)[i]
                    = handoff.proof.vcs_proofs[i].vcs_proof.index

C9_Witness ==
    /\ Verified
    /\ verifyRun.res.ok
    /\ Len(batch) = 2
    /\ \E i \in 1 .. Len(verifyRun.ch.log) : verifyRun.ch.log[i].op = "sample"
    /\ SampledIndices(verifyRun.ch.log)[1] # SampledIndices(verifyRun.ch.log)[2]

\* verify_evaluation was given a proof whose shape check_proof_shape rejects
ShapeRejected == Verified /\ ~check_proof_shape(handoff.proof).ok

\* the number of mixing challenges verify_evaluation samples
NumMixing == log2_ceil_usize(Len(claimed))

\* C17 as stated -- verify_evaluation checks the shape of the proof before it
\* samples the mixing challenges: a proof rejected for its shape leaves the
\* challenger in its incoming state.
C17_AsStated ==
    ShapeRejected => verifyRun.ch = ChallengerAfterQuery(point)

\* C17 -- verify_evaluation samples its ceil(log2 n_polys) mixing challenges and
\* then checks the shape of the proof, before t' is observed and before any index
\* is sampled: a proof rejected for its shape gets the error of check_proof_shape
\* and leaves the challenger advanced by the mixing samples and by nothing else.
C17_ShapeAfterSampling ==
    ShapeRejected =>
        LET incoming == ChallengerAfterQuery(point).log
            log == verifyRun.ch.log
        IN  /\ ~verifyRun.res.ok
            /\ verifyRun.res.err \in {"NumberOfOpeningProofs", "NumBatchedMismatchError",
                                      "OpenedColumnSize", "PartialEvaluationSize"}
            /\ Len(log) = Len(incoming) + NumMixing
            /\ SubSeq(log, 1, Len(incoming)) = incoming
            /\ \A i \in Len(incoming) + 1 .. Len(log) : log[i].op = "sample"

C17_Witness ==
    /\ ShapeRejected
    /\ Len(batch) = 2
    /\ verifyRun.res.err = "PartialEvaluationSize"
    /\ verifyRun.ch # ChallengerAfterQuery(point)

\* the openings of the proof the verifier was given whose column list has the
\* wrong length, and its columns of the wrong size
WrongCount(c) == Len(handoff.proof.vcs_proofs[c].cols) # handoff.proof.n_polys

WrongSize(c, p) == Len(handoff.proof.vcs_proofs[c].cols[p]) * PI_WIDTH # Pow2(log_rows)

Spoilt(c) == WrongCount(c) \/ \E p \in 1 .. Len(handoff.proof.vcs_proofs[c].cols) : WrongSize(c, p)

\* the first opening with a column list or a column of the wrong shape, and the
\* first column of the wrong size in it
FirstSpoilt ==
    CHOOSE c \in 1 .. Len(handoff.proof.vcs_proofs) :
        Spoilt(c) /\ \A d \in 1 .. c - 1 : ~Spoilt(d)

FirstWrongSize(c) ==
    CHOOSE p \in 1 .. Len(handoff.proof.vcs_proofs[c].cols) :
        WrongSize(c, p) /\ \A q \in 1 .. p - 1 : ~WrongSize(c, q)

\* C18 as stated -- the four conditions are checked one after the other over the
\* whole proof: a column list of the wrong length in any opening is reported
\* before a column of the wrong size in any opening.
C18_AsStated ==
    (Verified /\ Len(handoff.proof.vcs_proofs) = n_test_queries
        /\ \E c \in 1 .. n_test_queries : WrongCount(c)) =>
        verifyRun.res.err = "NumBatchedMismatchError"

\* C18 -- check_proof_shape reports NumberOfOpeningProofs when the number of
\* openings is not n_test_queries; otherwise it goes through the openings in
\* order and reports, for the first opening that is wrong, NumBatchedMismatchError
\* when its column list has not n_polys columns and else OpenedColumnSize with the
\* indices of its first column whose len * PI::WIDTH is not 2^log_rows; otherwise
\* PartialEvaluationSize when mixed_t_prime has not log_n_cols variables; a proof
\* with none of these passes the shape check.
C18_ShapeErrors ==
    Verified =>
        LET proof == handoff.proof
            res == verifyRun.res
        IN  IF Len(proof.vcs_proofs) # n_test_queries
            THEN res = [ok |-> FALSE, err |-> "NumberOfOpeningProofs",
                        expected |-> n_test_queries]
            ELSE IF \E c \in 1 .. n_test_queries : Spoilt(c)
            THEN IF WrongCount(FirstSpoilt)
                 THEN res = Err("NumBatchedMismatchError")
                 ELSE /\ res.err = "OpenedColumnSize"
                      /\ res.col_index = FirstSpoilt - 1
                      /\ res.poly_index = FirstWrongSize(FirstSpoilt) - 1
                      /\ res.expected = Pow2(log_rows)
            ELSE IF proof.mixed_t_prime.n_vars # log_cols
            THEN res = Err("PartialEvaluationSize")
            ELSE res.ok \/ res.err \in {"IncorrectEvaluation", "VectorCommit",
                                        "IncorrectPartialEvaluation"}

C18_Witness ==
    /\ Verified
    /\ Len(handoff.proof.vcs_proofs) = n_test_queries
    /\ ~WrongCount(1)
    /\ WrongSize(1, 1)
    /\ WrongCount(2)
    /\ verifyRun.res.err = "OpenedColumnSize"

\* the proof the verifier was given has a changed entry of mixed_t_prime that
\* counts in t'(query[..log_n_cols])
EvaluationTampered ==
    /\ Verified
    /\ handoff.tamper \in {"mixed_t_prime", "both"}
    /\ TamperedEntryWeight # 0

\* C19 -- for a proof of valid shape verify_evaluation observes the scalars of
\* t' and then compares t'(query[..log_n_cols]) with the mixed claimed value; when
\* they differ it returns IncorrectEvaluation with no index sampled and no
\* opening verified, whatever the openings of the proof are.
C19_EvaluationFirst ==
    (Verified /\ check_proof_shape(handoff.proof).ok) =>
        LET incoming == ChallengerAfterQuery(point).log
            log == verifyRun.ch.log
            evals == handoff.proof.mixed_t_prime.evals
            before == Len(incoming) + NumMixing
        IN  /\ Len(log) >= before + Len(evals)
            /\ \A i \in 1 .. Len(evals) :
                  log[before + i] = [op |-> "observe", val |-> evals[i]]
            /\ EvaluationTampered =>
                  /\ verifyRun.res = Err("IncorrectEvaluation")
                  /\ Len(log) = before + Len(evals)
                  /\ \A i \in 1 .. Len(log) : log[i].op # "sample_bits"

C19_Witness ==
    /\ EvaluationTampered
    /\ handoff.tamper = "both"
    /\ Len(batch) = 2
    /\ verifyRun.res = Err("IncorrectEvaluation")

\* commit was called with a batch holding a polynomial of the wrong size
CommitRejected ==
    /\ commitRes # NotCommitted
    /\ \E i \in 1 .. Len(commitArg) : commitArg[i].n_vars # log_rows + log_cols

\* C21 -- commit on a batch in which some polynomial, at any position, has not
\* log_rows + log_cols variables returns IncorrectPolynomialSize with expected =
\* log_rows + log_cols, and has then transposed, encoded and hashed nothing and
\* made no VCS commit; a batch of polynomials of the right size is committed.
C21_CommitSizeCheckFirst ==
    (commitRes # NotCommitted) =>
        IF CommitRejected
        THEN commitRes = [ok |-> FALSE, err |-> "IncorrectPolynomialSize",
                          expected |-> log_rows + log_cols, steps |-> <<>>]
        ELSE /\ commitRes.ok
             /\ commitRes.steps[Len(commitRes.steps)].op = "commit_batch"

C21_Witness ==
    /\ CommitRejected
    /\ Len(commitArg) = 2
    /\ commitArg[1].n_vars = log_rows + log_cols
    /\ commitArg[2].n_vars = log_rows + log_cols + 1
    /\ ~commitRes.ok

\* multiply was called to square the generator (0, 1) of a level above 0
GeneratorSquared ==
    /\ fcall.op = "multiply"
    /\ fcall.level >= 1
    /\ fcall.x = Alpha(fcall.level)
    /\ fcall.y = Alpha(fcall.level)

\* multiply was called to square the generator of the level below, embedded
LowerGeneratorSquared ==
    /\ fcall.op = "multiply"
    /\ fcall.level >= 1
    /\ fcall.x = Embed(fcall.level, Alpha(fcall.level - 1))
    /\ fcall.y = fcall.x

\* X^2 + alpha * X + 1 = 0 at level k, with x2 the computed square of X
RelationHolds(k, X, x2, alpha) ==
    FAdd(k, FAdd(k, x2, multiply(k, alpha, X)), One(k)) = Zero(k)

\* C22 as stated -- X = (0, 1) satisfies X^2 + alpha_k * X + 1 = 0 one level up,
\* and alpha_k = alpha_{k-1}^2 + alpha_{k-1} for every k >= 1.
C22_AsStated ==
    /\ GeneratorSquared =>
          RelationHolds(fcall.level, fcall.x, fcall.res,
                        Embed(fcall.level, Alpha(fcall.level - 1)))
    /\ LowerGeneratorSquared =>
          FAdd(fcall.level, fcall.res, fcall.x) = Alpha(fcall.level)

\* C22 -- with alpha_0 = 1 and alpha_k = multiply_alpha(1) the generator of
\* level k, alpha_k is the element (0, 1) over level k - 1 and satisfies
\* alpha_k^2 + alpha_{k-1} * alpha_k + 1 = 0 under the implemented multiply, for
\* every k >= 1; alpha_{k-1}^2 + alpha_{k-1} lies in level k - 1 and is not
\* alpha_k.
C22_Generators ==
    /\ Alpha(0) = 1
    /\ (fcall.op = "multiply_alpha" /\ fcall.x = One(fcall.level)) =>
          fcall.res = Alpha(fcall.level)
    /\ GeneratorSquared =>
          /\ RelationHolds(fcall.level, fcall.x, fcall.res,
                           Embed(fcall.level, Alpha(fcall.level - 1)))
          /\ fcall.res = Join(fcall.level, One(fcall.level - 1), Alpha(fcall.level - 1))
    /\ LowerGeneratorSquared =>
          /\ IsEmbedded(fcall.level, FAdd(fcall.level, fcall.res, fcall.x))
          /\ FAdd(fcall.level, fcall.res, fcall.x) # Alpha(fcall.level)

C22_Witness ==
    /\ GeneratorSquared
    /\ fcall.level = 4
    /\ fcall.res = <<1, 16>>

\* the product by the recurrence (z0 + z2, z1 + alpha * z2) alone, down to the
\* bits of level 0, with no table
RECURSIVE Karatsuba(_, _, _)
Karatsuba(k, a, b) ==
    IF k = 0 THEN a * b
    ELSE LET a0 == Split(k, a)[1]
             a1 == Split(k, a)[2]
             b0 == Split(k, b)[1]
             b1 == Split(k, b)[2]
             z0 == Karatsuba(k - 1, a0, b0)
             z2 == Karatsuba(k - 1, a1, b1)
             z1 == FAdd(k - 1, Karatsuba(k - 1, FAdd(k - 1, a0, a1), FAdd(k - 1, b0, b1)),
                        FAdd(k - 1, z0, z2))
         IN  Join(k, FAdd(k - 1, z0, z2),
                  FAdd(k - 1, z1, Karatsuba(k - 1, Alpha(k - 1), z2)))

\* C23 -- for all a, b in [0, 16) mul_bin_4b(a, b) is the level-2 product
\* (z0 + z2, z1 + alpha * z2) over the level-1 halves, and for all a, b in [0, 4)
\* it is again in [0, 4) and is the level-1 product by the same recurrence over
\* the bits of level 0.
C23_LookupIsKaratsuba ==
    (fcall.op = "multiply" /\ fcall.level \in {1, 2}) =>
        /\ fcall.res = Karatsuba(fcall.level, fcall.x, fcall.y)
        /\ fcall.res = multiply_rec(fcall.level, fcall.x, fcall.y)
        /\ fcall.level = 1 => fcall.res \in 0 .. 3
        /\ (fcall.level = 2 /\ fcall.x < 4 /\ fcall.y < 4) =>
              /\ fcall.res \in 0 .. 3
              /\ fcall.res = Karatsuba(1, fcall.x, fcall.y)

C23_Witness ==
    /\ fcall.op = "multiply"
    /\ fcall.level = 2
    /\ fcall.x = 7
    /\ fcall.y = 11
    /\ fcall.res = Karatsuba(2, 7, 11)
    /\ fcall.res >= 4

\* the entry of row r, column j (both from 0) of the encoded matrix of a
\* polynomial: its evaluations form 2^log_rows rows of code.dim() scalars, and
\* each row is encoded to a codeword of code.len() scalars
EncodedEntry(poly, r, j) ==
    FESum([i \in 1 .. code_dim |->
              multiply(LevelF, GeneratorMatrix[i][j + 1], poly.evals[r * code_dim + i])])

\* column j of the encoded matrix
EncodedColumn(poly, j) == [r \in 1 .. Pow2(log_rows) |-> EncodedEntry(poly, r - 1, j)]

\* C24 as stated -- every matrix of the Committed state is a RowMajorMatrix of
\* 2^log_rows rows and code.len() columns, and its j-th column is column j of the
\* encoded matrix.
C24_AsStated ==
    commitRes.ok =>
        \A i \in 1 .. Len(commitArg) :
            LET mat == commitRes.committed.mats[i]
            IN  /\ mat.width = code_len
                /\ Len(mat.values) = Pow2(log_rows) * mat.width
                /\ \A j \in 0 .. code_len - 1 :
                      [r \in 1 .. Pow2(log_rows) |-> mat.values[(r - 1) * mat.width + j + 1]]
                          = EncodedColumn(commitArg[i], j)

\* C24 -- every matrix of the Committed state is a RowMajorMatrix of code.len()
\* rows and 2^log_rows / PI::WIDTH columns that holds the 2^log_rows x code.len()
\* encoded matrix transposed: its row j is column j of the encoded matrix, and
\* prove_evaluation opens column j by taking row_slice(j).
C24_EncodedMatrixShape ==
    /\ commitRes.ok =>
          /\ Len(commitRes.committed.mats) = Len(commitArg)
          /\ \A i \in 1 .. Len(commitArg) :
                LET mat == commitRes.committed.mats[i]
                IN  /\ mat.width * PI_WIDTH = Pow2(log_rows)
                    /\ Len(mat.values) = code_len * mat.width
                    /\ \A j \in 0 .. code_len - 1 :
                          row_slice(mat, j) = EncodedColumn(commitArg[i], j)
    /\ ProveOk =>
          \A c \in 1 .. n_test_queries : \A i \in 1 .. Len(batch) :
              proveRun.res.proof.vcs_proofs[c].cols[i]
                  = EncodedColumn(batch[i], SampledIndices(proveRun.ch.log)[c])

C24_Witness ==
    /\ ProveOk
    /\ Len(commitArg) = 2
    /\ commitRes.committed.mats[1] # commitRes.committed.mats[2]
    /\ SampledIndices(proveRun.ch.log)[1] = code_len - 1
    /\ \E r \in 1 .. Pow2(log_rows) :
          EncodedColumn(batch[1], code_len - 1)[r] # 0

\* verify_evaluation was given values of another length than proof.n_polys
ValuesMismatch == verifyRun.called /\ Len(verifyRun.values) # handoff.proof.n_polys

\* prove_evaluation was given another number of polynomials than were committed
BatchMismatch == proveRun.called /\ Len(proveRun.polys) # Len(commitRes.committed.mats)

\* C25 -- verify_evaluation given values with values.len() != proof.n_polys
\* returns NumBatchedMismatchError and leaves the challenger as it was given,
\* with no sample and no observation made on it; prove_evaluation given a number
\* of polynomials other than the number of committed matrices returns
\* NumBatchedMismatchError and no proof.
C25_BatchMismatch ==
    /\ ValuesMismatch =>
          /\ verifyRun.res = Err("NumBatchedMismatchError")
          /\ verifyRun.ch = ChallengerAfterQuery(point)
    /\ BatchMismatch => proveRun.res = Err("NumBatchedMismatchError")

C25_Witness ==
    /\ ValuesMismatch
    /\ Len(verifyRun.values) = 3
    /\ handoff.tamper = "shape"
    /\ verifyRun.ch.log = ChallengerAfterQuery(point).log

====
